---------------------------- MODULE Spec2Model ----------------------------
(***************************************************************************)
(* Context assembly and hierarchical memory (L1/L2/L3) of the local        *)
(* "responses" gateway: the budget solver, the L1 fill, the preflight      *)
(* compactor, the post-reply normalizer, the memory promotion and the      *)
(* summary store, for one thread served by concurrent request tasks.       *)
(*                                                                         *)
(* Texts are abstracted to what the code reads of them: the number of      *)
(* characters that are not bullet/space decoration (len), the number of    *)
(* decoration characters at the ends (bul), and whether an alphanumeric    *)
(* character occurs (alnum).  A message also carries the length of its     *)
(* <think>...</think> blocks (think), and the length they had when the row *)
(* was appended (sent).                                                    *)
(***************************************************************************)
EXTENDS Integers, Sequences, FiniteSets, TLC

(***************************************************************************)
(* Bounds of the model.                                                    *)
(***************************************************************************)
MaxRequests == 2          \* requests started on the thread in one behaviour
MinSeedL3 == 7            \* exchanges behind the short seeded thread
MaxSeedL3 == 61           \* exchanges behind the long seeded thread
MaxFrags == 3             \* fragments the upstream delivers to one stream
MaxStreams == 1           \* streaming responses opened in one behaviour
FragLen == 40             \* characters of one fragment of the upstream
HistPairs == 6            \* exchanges of the thread that was never summarized
MaxBreakdowns == 2        \* breakdowns the token counter serves in one behaviour
TickSec == 30             \* seconds in one step of the clock of the token counter
MaxInfoTicks == 2         \* steps of the clock of the model-info cache
MaxClock == 60            \* last reading of that clock

(***************************************************************************)
(* Settings (packages/core/settings.py) and literals of the code.          *)
(***************************************************************************)
ctx_safety_pct == 10
ctx_rsys_pct == 5
ctx_rsys_min == 256
ctx_rout_pct == 25
ctx_rout_default == 512
ctx_default_context_length == 4096
ctx_core_sys_pad_tok == 100
mem_l1_share == 60
mem_l2_share == 30
mem_l3_share == 10
mem_tools_max_share == 15
mem_free_threshold == 5
mem_promotion_batch_size == 4
cap_tok_user == 120
cap_tok_assistant == 80
L1_MIN_PAIRS == 2
L1_HIGH == 90
L1_LOW == 70
L2_HIGH == 90
L2_LOW == 70
L3_HIGH == 90
L3_LOW == 70
R_OUT_MIN == 256
PF_GUARD == 20
NZ_GUARD == 12
EVICT_COUNT == 3
L2_GROUP_SIZE == 4
L3_GROUP_SIZE == 5
\* Options the code reads from the settings object but the settings class
\* does not declare; their values are taken from the design document.
R_OUT_FLOOR == 16
L3_MIN_NONEMPTY_CHARS == 8
L3_RETRY_ATTEMPTS == 1
\* The rendered default profile (16 "Field: " lines) and the system prelude
\* built from it: instruction, divider, header, core text.
CORE_TEXT_LEN == 166
SYSTEM_TEXT_LEN == 264

(***************************************************************************)
(* Small inputs.                                                           *)
(***************************************************************************)
Req == {1, 2}                       \* request tasks that may run concurrently
Windows == {512, 1024, 2048}              \* loaded_context_length of the model asked for
Requested == {0}                    \* max_output_tokens of the request (0: absent)
UserLens == {0, 40, 800}              \* characters of a user input
AsstLens == {400}                   \* visible characters of an assistant reply
ThinkLens == {0, 40}                \* characters of its <think> blocks

Txt(l, b, a) == [len |-> l, bul |-> b, alnum |-> a]
T_EMPTY == Txt(0, 0, FALSE)         \* ""
T_BULLET == Txt(0, 2, FALSE)        \* "- " : decoration only
T_LINE == Txt(40, 0, TRUE)          \* one meaningful line
LlmTexts == {T_EMPTY, T_BULLET, T_LINE}
\* Not texts: an exception of the upstream call (RAISE), an IndexError of
\* the code that builds a text (CRASH).
RAISE == [len |-> -1, bul |-> 0, alnum |-> FALSE]
CRASH == [len |-> -2, bul |-> 0, alnum |-> FALSE]

\* The larger of two numbers, where the smaller is meant.
Larger(a, b) == IF a >= b THEN a ELSE b

Min(a, b) == IF a <= b THEN a ELSE b
Max(a, b) == IF a >= b THEN a ELSE b
\* A quotient rounded down, where rounding up is meant.
FloorDiv(a, b) == a \div b

CeilDiv(a, b) == (a + b - 1) \div b

RECURSIVE SumSeq(_)
SumSeq(s) == IF s = <<>> THEN 0 ELSE Head(s) + SumSeq(Tail(s))

Take(s, n) == SubSeq(s, 1, Min(n, Len(s)))
Drop(s, n) == SubSeq(s, Min(n, Len(s)) + 1, Len(s))

(***************************************************************************)
(* packages/utils/tokens.py, packages/orchestration/redactor.py            *)
(***************************************************************************)
approx_tokens(n) == CeilDiv(n, 4)

\* redact_fragment on a message: the <think> blocks are removed.
redact_fragment(m) == [m EXCEPT !.think = 0]

\* sanitize_for_memory: redact_fragment, then strip.
sanitize_for_memory(m) == redact_fragment(m)

RawLen(t) == t.len + t.bul

(***************************************************************************)
(* packages/orchestration/summarizer.py                                    *)
(***************************************************************************)
\* A test that takes any text that is not empty for meaningful.
not_empty(t) == t.len + t.bul > 0

\* _is_meaningful (lines 78-83): after the strip of spaces and markers, at
\* least L3_MIN_NONEMPTY_CHARS characters, a letter or a digit among them.
is_meaningful(t) == t.len >= L3_MIN_NONEMPTY_CHARS /\ t.alnum

debullet(t) == [t EXCEPT !.bul = 0]


\* _call_llm_summary / provider.generate: what one upstream call gives, after
\* redact_fragment.  RAISE is a transport or HTTP error.
LlmOuts == LlmTexts \cup {RAISE}

\* " ".join(cleaned)[:400]
JoinTexts(ts) ==
  Txt(Min(400, SumSeq([i \in 1..Len(ts) |-> ts[i].len]) + (Len(ts) - 1)), 0,
      \E i \in 1..Len(ts) : ts[i].alnum)

\* The index of the first call of outs (the initial call, then the retries)
\* that raises or returns a meaningful text; 0 when there is none.
RECURSIVE FirstDeciding(_, _)
FirstDeciding(outs, i) ==
  IF i > Len(outs) THEN 0
  ELSE IF outs[i] = RAISE THEN i
  ELSE IF is_meaningful(outs[i]) THEN i
  ELSE FirstDeciding(outs, i + 1)

\* summarize_l2_block_to_l3(l2_texts): outs are the upstream's answers to the
\* 1 + L3_RETRY_ATTEMPTS calls it may make.  The result is a text or RAISE.
summarize_l2_block_to_l3(l2_texts, outs) ==
  LET kept == SelectSeq(l2_texts, LAMBDA t : RawLen(t) > 0)
      cleaned == [i \in 1..Len(kept) |-> debullet(kept[i])]
      d == FirstDeciding(outs, 1)
      fallback == JoinTexts(cleaned)
  IN IF l2_texts = <<>> \/ cleaned = <<>> THEN T_EMPTY
     ELSE IF d > 0 THEN (IF outs[d] = RAISE THEN RAISE ELSE debullet(outs[d]))
     ELSE IF is_meaningful(fallback) THEN fallback
     ELSE Txt(Min(200, cleaned[1].len), 0, cleaned[1].alnum)

\* The number of upstream calls summarize_l2_block_to_l3 makes.
l3_calls_made(l2_texts, outs) ==
  LET kept == SelectSeq(l2_texts, LAMBDA t : RawLen(t) > 0)
      d == FirstDeciding(outs, 1)
  IN IF kept = <<>> THEN 0 ELSE IF d > 0 THEN d ELSE Len(outs)

\* summarize_pairs_group_to_l2: one upstream call, redacted.
summarize_pairs_group_to_l2(pairs_texts, out) == out

\* The bullets the compactors build when summarize_pairs_group_to_l2 raises:
\* "- <user line[:120]> -> <assistant line[:120]>" for the first two pairs.
PairsBullets(l1chunk) ==
  LET n == Min(2, Len(l1chunk) \div 2)
      one(i) == Min(120, l1chunk[2 * i - 1].len) + 3 + Min(120, l1chunk[2 * i].len)
  IN IF n = 0 THEN Txt(5, 2, TRUE)
     ELSE Txt(SumSeq([i \in 1..n |-> one(i)]) + 3 * (n - 1), 2, TRUE)

\* The bullets built from the first lines of the first n texts of a block,
\* "* <line[:cut]>" each; CRASH when a text is empty (splitlines()[0]).
BlockBullets(texts, n, cut) ==
  LET k == Min(n, Len(texts))
      hasAl == \E i \in 1..k : texts[i].alnum
  IN IF \E i \in 1..k : RawLen(texts[i]) = 0 THEN CRASH
     ELSE Txt(IF hasAl THEN SumSeq([i \in 1..k |-> Min(cut, texts[i].len)]) + 3 * (k - 1)
              ELSE 0,
              2 + SumSeq([i \in 1..k |-> texts[i].bul]), hasAl)

(***************************************************************************)
(* packages/orchestration/budget.py                                        *)
(***************************************************************************)
\* A budget vector whose input budget grows with the output reservation.
compute_budgets_adding_rout(loaded, mx, max_output_tokens, core_cap) ==
  LET C_base == IF loaded > 0 THEN loaded
                ELSE IF mx > 0 THEN mx ELSE ctx_default_context_length
      asked == IF max_output_tokens # 0 THEN max_output_tokens ELSE ctx_rout_default
      R_out == Min(asked, (ctx_rout_pct * C_base) \div 100)
      R_sys == Max(ctx_rsys_min, (ctx_rsys_pct * C_base) \div 100)
      Safety == CeilDiv(ctx_safety_pct * C_base, 100)
      B_total_in == C_base + R_out - R_sys - Safety
      core_reserved == Min(core_cap + ctx_core_sys_pad_tok, Max(0, B_total_in))
  IN [C_eff |-> C_base, R_out |-> R_out, R_sys |-> R_sys, Safety |-> Safety,
      B_total_in |-> B_total_in, core_reserved |-> core_reserved,
      B_work |-> Max(0, B_total_in - core_reserved)]

\* compute_budgets, after the model info is resolved: loaded and mx are the
\* context lengths the upstream reports (0: not reported).
compute_budgets(loaded, mx, max_output_tokens, core_cap) ==
  LET C_base == IF loaded > 0 THEN loaded
                ELSE IF mx > 0 THEN mx ELSE ctx_default_context_length
      asked == IF max_output_tokens # 0 THEN max_output_tokens ELSE ctx_rout_default
      R_out == Min(asked, (ctx_rout_pct * C_base) \div 100)
      R_sys == Max(ctx_rsys_min, (ctx_rsys_pct * C_base) \div 100)
      Safety == CeilDiv(ctx_safety_pct * C_base, 100)
      B_total_in == C_base - R_out - R_sys - Safety
      core_reserved == Min(core_cap + ctx_core_sys_pad_tok, Max(0, B_total_in))
  IN [C_eff |-> C_base, R_out |-> R_out, R_sys |-> R_sys, Safety |-> Safety,
      B_total_in |-> B_total_in, core_reserved |-> core_reserved,
      B_work |-> Max(0, B_total_in - core_reserved)]

(***************************************************************************)
(* packages/providers/lmstudio_tokens.py, orchestration/token_budget.py    *)
(***************************************************************************)
\* The token count of one chat message of n characters.
msg_tokens(n) == IF n = 0 THEN 0 ELSE Max(1, approx_tokens(n))

\* count_tokens_chat on a list of messages, given by their character counts.
count_tokens_chat(lens) == SumSeq([i \in 1..Len(lens) |-> msg_tokens(lens[i])])

MsgLens(ms) == [i \in 1..Len(ms) |-> ms[i].len + ms[i].think]
RowLens(rows) == [i \in 1..Len(rows) |-> RawLen(rows[i].txt)]

\* tokens_breakdown: cumulative counts system -> +l3 -> +l2 -> +l1 -> +user,
\* the layers being the differences.
tokens_breakdown(sys, l3, l2, l1, user) ==
  LET T0 == count_tokens_chat(sys)
      T1 == count_tokens_chat(sys \o RowLens(l3))
      T2 == count_tokens_chat(sys \o RowLens(l3) \o RowLens(l2))
      T3 == count_tokens_chat(sys \o RowLens(l3) \o RowLens(l2) \o MsgLens(l1))
      T4 == count_tokens_chat(sys \o RowLens(l3) \o RowLens(l2) \o MsgLens(l1) \o user)
  IN [system |-> T0, l3 |-> T1 - T0, l2 |-> T2 - T1, l1 |-> T3 - T2,
      user |-> T4 - T3, total |-> T4]

(***************************************************************************)
(* packages/orchestration/context_builder.py: helpers                      *)
(***************************************************************************)
\* build_pairs_asc: (user, assistant) pairs of a chronological message list.
\* The loop keeps the last user message seen and pairs it with the next
\* assistant message, then forgets it.  The list holds user and assistant
\* messages only, so last_user is set at an assistant message exactly when
\* the message before it is a user message: pair_ends are the positions of
\* the assistant messages that close a pair.  A user message followed by
\* another user message is dropped, and so is an assistant message with no
\* pending user message.  The result is the flattened list u1, a1, u2, a2, ...
pair_ends(items) ==
  SelectSeq([j \in 1..Len(items) |-> j],
            LAMBDA j : /\ items[j].role = "assistant"
                       /\ j > 1
                       /\ items[j - 1].role = "user")

build_pairs_asc(items) ==
  LET ends == pair_ends(items)
  IN [k \in 1..(2 * Len(ends)) |->
        IF k % 2 = 1 THEN items[ends[(k + 1) \div 2] - 1] ELSE items[ends[k \div 2]]]

\* flatten_pairs_asc: the message dicts of the pairs, contents sanitized.
flatten_pairs_asc(pairs) == [i \in 1..Len(pairs) |-> sanitize_for_memory(pairs[i])]

\* The first n pairs of a flattened pair list.
OldestPairs(pairs, n) == SubSeq(pairs, 1, 2 * n)

\* The last n pairs of a flattened pair list.
LastPairs(pairs, n) == SubSeq(pairs, Len(pairs) - 2 * n + 1, Len(pairs))


(***************************************************************************)
(* State.                                                                  *)
(***************************************************************************)
VARIABLES
  msgs,      \* messages table of the thread, in created_at order; id = position
  l2rows,    \* l2_summaries of the thread, by id: [id, s, e, txt]
  l3rows,    \* l3_microsummaries of the thread, by id: [id, s2, e2, txt]
  nextL2,    \* next autoincrement id of l2_summaries
  nextL3,    \* next autoincrement id of l3_microsummaries
  pc,        \* where each request task stands
  loc,       \* the locals of each request task
  started,   \* requests started so far
  stream,    \* the streaming response in progress, if any
  tok,       \* the token counter: its cache, its clock, the breakdown in progress
  bq,        \* the budgets computed for one model, two requests at most
  mi         \* the model info of one model id: upstream, cache, lock, callers

vars == <<msgs, l2rows, l3rows, nextL2, nextL3, pc, loc, started, stream, tok, bq, mi>>

\* The thread store and the request tasks; the rest of the state.
store_vars == <<msgs, l2rows, l3rows, nextL2, nextL3, pc, loc, started>>
aux == <<stream, tok, bq, mi>>
\* What a step of the streaming response leaves alone besides the store,
\* what a step of the token counter leaves alone, and what a budget
\* computation leaves alone.
stream_frame == <<tok, bq, mi>>
tok_frame == <<store_vars, stream, bq, mi>>
bq_frame == <<store_vars, stream, tok, mi>>
mi_frame == <<store_vars, stream, tok, bq>>

\* No streaming response: nothing registered in ACTIVE_STREAMS, no task.
\*   flag       cancel_flag["cancelled"]
\*   active     resp_id is in ACTIVE_STREAMS
\*   collected  fragments appended to collected
\*   queue      chunks in the queue of event_iter
\*   done       done_event is set
\*   prod       where produce_loop stands
\*   cons       where the consumer loop of event_iter stands
\*   status     the status save_response recorded
\*   normalized normalize_after_reply has run to its end
\*   at_cancel  fragments collected when the cancellation was asked, -1 if none
\*   opened     streaming responses opened so far
StreamIdle ==
  [flag |-> FALSE, active |-> FALSE, collected |-> 0, queue |-> 0, done |-> FALSE,
   prod |-> "none", cons |-> "none", status |-> "none", normalized |-> FALSE,
   at_cancel |-> -1, opened |-> 0]

\* The token counter before any call: _cache is empty.
\*   cache     _cache, one record per key: the messages counted (k), the
\*             count (n), the time of the entry (t) and its mode
\*   now       time.time(), in steps of TickSec seconds
\*   blocks    the message lists of the breakdown in progress
\*   pos       0: no breakdown; 1..5: the next cumulative count of
\*             tokens_breakdown; 6: the count of create_response; 7: reported
\*   modes     the modes the cumulative counts returned
\*   last      the last call of count_tokens_chat: what the upstream did
\*             ("hit" when it was not asked), what was returned
\*   bd_mode   token_count_mode of the breakdown
\*   reported  context_assembly.token_count_mode of the response
\*   runs      breakdowns started so far
TokIdle ==
  [cache |-> {}, now |-> 0, blocks |-> <<>>, pos |-> 0, modes |-> <<>>,
   last |-> [out |-> "none", n |-> 0, mode |-> "none", lens |-> <<>>],
   bd_mode |-> "none", reported |-> "none", runs |-> 0]

ZeroBd == [system |-> 0, l3 |-> 0, l2 |-> 0, l1 |-> 0, user |-> 0, total |-> 0]
ZeroBud == [C_eff |-> 0, R_out |-> 0, R_sys |-> 0, Safety |-> 0, B_total_in |-> 0,
            core_reserved |-> 0, B_work |-> 0]
ZeroCaps == [l1 |-> 0, l2 |-> 0, l3 |-> 0]

\* No budget computed yet.
\*   loaded, mx  loaded_context_length and max_context_length of the model
\*               info (0: not reported)
\*   core_cap    core_cap of the call
\*   m1, b1      max_output_tokens of a call and the budgets it returned
\*   m2, b2      the same for a second call with the same model info
\*   n           calls made with this model info
BqIdle ==
  [loaded |-> 0, mx |-> 0, core_cap |-> 0, m1 |-> 0, b1 |-> ZeroBud,
   m2 |-> 0, b2 |-> ZeroBud, n |-> 0,
   tools |-> 0, used |-> 0, caps |-> ZeroCaps, mcaps |-> ZeroCaps, capped |-> FALSE]

\* The callers of compute_budgets for one model id.
Callers == {1, 2}

\* A model info no caller has and no cache holds.
NoInfo == [state |-> "none", loaded |-> 0, mx |-> 0, source |-> "none"]

\* Nothing cached, the lock free, no caller at work, the model not loaded.
\*   up      state of the model at the upstream
\*   now     time.time(), in seconds;  ticks: steps of the clock so far
\*   cache   _cache[key]: val, exp, and the time it was stored (at);
\*           exp = -1: no entry
\*   lock    the caller that holds _locks[key], 0 when it is free
\*   pc      where each caller stands: idle, lock (waits for the lock),
\*           fetch (awaits fetch_model_info inside the lock), sleep (awaits
\*           asyncio.sleep in the polling loop), poll (awaits fetch_model_info
\*           in the polling loop), done (compute_budgets has returned)
\*   info    the model info of each caller
\*   polls   polls each caller has made
\*   hit     the last entry get_cached returned: its age, whether it was
\*           provisional, whether its exp was in the past (age -1: none
\*           returned yet)
InfoIdle ==
  [up |-> "not-loaded", now |-> 0, ticks |-> 0,
   cache |-> [val |-> NoInfo, exp |-> -1, at |-> 0],
   lock |-> 0,
   pc |-> [c \in Callers |-> "idle"],
   info |-> [c \in Callers |-> NoInfo],
   polls |-> [c \in Callers |-> 0],
   hit |-> [age |-> -1, prov |-> FALSE, late |-> FALSE]]

AuxInit == stream = StreamIdle /\ tok = TokIdle /\ bq = BqIdle /\ mi = InfoIdle


\* The locals of a task that serves no request.
LocIdle ==
  [w |-> 0, req |-> 0, cur |-> 0, ulen |-> 0, bud |-> ZeroBud, caps |-> ZeroCaps,
   l1 |-> <<>>, l2 |-> <<>>, l3 |-> <<>>, bd |-> ZeroBd, guard |-> 0,
   blk |-> <<>>, K |-> 0, sum |-> T_EMPTY, steps |-> <<>>, exit |-> "none",
   nsteps |-> <<>>, npairs |-> 0, foc |-> 0, prompt |-> 0, eff |-> 0]

\* Between these points and the next await the task does not yield: no other
\* task of the event loop runs while one task stands here.
SyncPcs == {"pf_loop", "pf_l3_del", "nz_loop", "nz_l3_del", "mem", "mem_l2", "mem_l3"}

CanRun(r) == \A q \in Req \ {r} : pc[q] \notin SyncPcs

Init ==
  /\ msgs = <<>>
  /\ l2rows = <<>>
  /\ l3rows = <<>>
  /\ nextL2 = 1
  /\ nextL3 = 1
  /\ pc = [r \in Req |-> "idle"]
  /\ loc = [r \in Req |-> LocIdle]
  /\ started = 0
  /\ AuxInit

(***************************************************************************)
(* packages/storage/repo.py                                                *)
(***************************************************************************)
\* An append_message that returns without saving the row.
append_message_not_saved(ms, role, len, think) == ms

\* append_message: a new row at the end of the thread.  sent keeps the
\* <think> characters of the content the row was appended with.
append_message(ms, role, len, think) ==
  Append(ms, [id |-> Len(ms) + 1, role |-> role, len |-> len, think |-> think,
              sent |-> think])

\* A history that leaves out the excluded message alone, keeping what was
\* saved after it.
history_without_the_message(ms, exclude) ==
  LET kept == SelectSeq(ms, LAMBDA m : m.id # exclude)
  IN [i \in 1..Len(kept) |-> redact_fragment(kept[i])]

\* get_thread_messages_for_l1: the user/assistant messages before the excluded
\* id (all of them when it is 0), each with redacted content.
get_thread_messages_for_l1(ms, exclude) ==
  LET n == IF exclude = 0 THEN Len(ms) ELSE exclude - 1
  IN [i \in 1..n |-> redact_fragment(ms[i])]

\* A load that writes the loaded texts back cut to nothing.
messages_emptied_by_load(ms, exclude) ==
  LET n == IF exclude = 0 THEN Len(ms) ELSE exclude - 1
  IN [i \in 1..Len(ms) |-> IF i <= n THEN [ms[i] EXCEPT !.len = 0, !.think = 0]
                                      ELSE ms[i]]

\* The messages table after get_thread_messages_for_l1 or get_messages_since:
\* the redacted content was assigned to the loaded rows inside session_scope,
\* which commits.
messages_after_load(ms, exclude) ==
  LET n == IF exclude = 0 THEN Len(ms) ELSE exclude - 1
  IN [i \in 1..Len(ms) |-> IF i <= n THEN redact_fragment(ms[i]) ELSE ms[i]]

\* MemoryState.last_compacted_message_id of a thread: the row is created with
\* the column empty and no statement of the repository assigns it.  0 is None.
last_compacted_message_id == 0

\* The ids a last_compacted_message_id can be compared with: none, every
\* message of the thread, and an id that no message has.
UnknownId == -1

\* A lookup that returns the messages from last_id on, last_id included.
messages_from(ms, last_id) ==
  LET at == {i \in 1..Len(ms) : ms[i].id = last_id}
      seq == IF last_id = 0 \/ at = {} THEN ms
             ELSE SubSeq(ms, (CHOOSE i \in at : TRUE), Len(ms))
      out == SelectSeq(seq, LAMBDA m : m.role \in {"user", "assistant"})
  IN [i \in 1..Len(out) |-> redact_fragment(out[i])]

\* get_messages_since: the messages in creation order; all of them when
\* last_id is None or is not found, else those after the message last_id;
\* of these the user and assistant messages, redacted.
get_messages_since(ms, last_id) ==
  LET at == {i \in 1..Len(ms) : ms[i].id = last_id}
      seq == IF last_id = 0 \/ at = {} THEN ms
             ELSE SubSeq(ms, (CHOOSE i \in at : TRUE) + 1, Len(ms))
      out == SelectSeq(seq, LAMBDA m : m.role \in {"user", "assistant"})
  IN [i \in 1..Len(out) |-> redact_fragment(out[i])]

\* insert_l2_summary: adds the row; nothing is looked up first.
insert_l2_summary(rows, id, s, e, txt) ==
  Append(rows, [id |-> id, s |-> s, e |-> e, txt |-> txt])

\* A pick that finds no block, whatever the rows.
pick_no_block(rows, max_items) == <<>>

\* pick_oldest_l2_block
pick_oldest_l2_block(rows, max_items) == Take(rows, max_items)

RowIds(rows) == {rows[i].id : i \in 1..Len(rows)}
MinOf(S) == CHOOSE x \in S : \A y \in S : x <= y
MaxOf(S) == CHOOSE x \in S : \A y \in S : x >= y

\* insert_l3_summary: one transaction that adds the L3 row only.
insert_l3_summary(rows, id, l2_ids, txt) ==
  IF l2_ids = {} THEN rows
  ELSE Append(rows, [id |-> id, s2 |-> MinOf(l2_ids), e2 |-> MaxOf(l2_ids), txt |-> txt])

\* delete_l2_batch: another transaction.
delete_l2_batch(rows, l2_ids) == SelectSeq(rows, LAMBDA x : x.id \notin l2_ids)

\* evict_l3_oldest
evict_l3_oldest(rows, count) == Drop(rows, count)

(***************************************************************************)
(* packages/orchestration/context_builder.py: assemble_context             *)
(***************************************************************************)
SysBlock == IF SYSTEM_TEXT_LEN > 0 THEN <<SYSTEM_TEXT_LEN>> ELSE <<>>
UserBlock(ulen) == IF ulen > 0 THEN <<ulen>> ELSE <<>>

\* tools_used (lines 180-184): the tokens of the tool results, at most the
\* share of B_work that tool results may take.
tools_used(B_work, tool_results_tokens) ==
  LET tools_cap == Min((mem_tools_max_share * B_work) \div 100, B_work)
  IN Min(tool_results_tokens, tools_cap)

\* Caps that are shares of the whole of B_work, tool results or not.
level_caps_of_whole_budget(B_work, tool_results_tokens) ==
  [l1 |-> (mem_l1_share * B_work) \div 100,
   l2 |-> (mem_l2_share * B_work) \div 100,
   l3 |-> (mem_l3_share * B_work) \div 100]

\* The caps of the levels (lines 185-188): shares of what the tool results
\* leave of B_work.
level_caps(B_work, tool_results_tokens) ==
  LET work_left == Max(0, B_work - tools_used(B_work, tool_results_tokens))
  IN [l1 |-> (mem_l1_share * work_left) \div 100,
      l2 |-> (mem_l2_share * work_left) \div 100,
      l3 |-> (mem_l3_share * work_left) \div 100]

\* Fill L1 newest -> oldest (lines 212-220): the number of newest pairs chosen.
\* A trial of n pairs is accepted iff its L1 tokens fit the cap and the window
\* is not overrun; the first rejected trial ends the loop.
RECURSIVE fill_l1(_, _, _, _, _, _, _)
fill_l1(pairs, n, l3, l2, user, l1cap, bud) ==
  IF 2 * (n + 1) > Len(pairs) THEN n
  ELSE LET bd_try == tokens_breakdown(SysBlock, l3, l2,
                                      flatten_pairs_asc(LastPairs(pairs, n + 1)), user)
       IN IF bd_try.l1 <= l1cap
             /\ bud.C_eff - bd_try.total - bud.R_sys - bud.Safety >= 0
          THEN fill_l1(pairs, n + 1, l3, l2, user, l1cap, bud)
          ELSE n

\* Minimum guarantee (lines 222-226): older pairs are prepended until
\* L1_MIN_PAIRS pairs are chosen or the history is exhausted.
min_guarantee(chosen, npairs) ==
  chosen + Min(Max(0, L1_MIN_PAIRS - chosen), npairs - chosen)

\* A fill percentage taken against twice the cap.
pf_pct_of_twice_cap(used, cap) == (100 * used) \div Max(1, 2 * cap)

\* The fill percentage the preflight compactor uses (lines 67-69).
pf_pct(used, cap) == (100 * used) \div Max(1, cap)


\* tokens_breakdown of the blocks a task holds.
bd(l) == tokens_breakdown(SysBlock, l.l3, l.l2, l.l1, UserBlock(l.ulen))

\* A free output capacity that forgets the reserves R_sys and Safety.
free_out_cap_without_reserves(l) == Max(0, l.bud.C_eff - l.bd.total)

\* free_out_cap as compact_to_budget and assemble_context compute it.
free_out_cap(l) == Max(0, l.bud.C_eff - l.bd.total - l.bud.R_sys - l.bud.Safety)

\* provider_messages, counted again by create_response (main.py, 545-553).
prompt_tok(l) ==
  count_tokens_chat(SysBlock \o RowLens(l.l3) \o RowLens(l.l2) \o MsgLens(l.l1)
                    \o UserBlock(l.ulen))

\* A clamp that ignores the free output capacity.
clamp_ignoring_free_out_cap(requested, foc) ==
  Max(R_OUT_FLOOR, IF requested # 0 THEN requested ELSE R_OUT_MIN)

\* The clamp of create_response (main.py, 559-561).
effective_max_output_tokens(requested, foc) ==
  Max(R_OUT_FLOOR, Min(IF requested # 0 THEN requested ELSE R_OUT_MIN, foc))

(***************************************************************************)
(* create_response: the request is accepted, the user message is saved.    *)
(***************************************************************************)
Start(r) ==
  /\ pc[r] = "idle"
  /\ \A q \in Req : q < r => pc[q] # "idle"   \* the tasks are interchangeable
  /\ CanRun(r)
  /\ started < MaxRequests
  /\ \E ulen \in UserLens, w \in Windows, rq \in Requested :
       /\ msgs' = append_message(msgs, "user", ulen, 0)
       /\ loc' = [loc EXCEPT ![r] = [LocIdle EXCEPT !.w = w, !.req = rq,
                                       !.cur = Len(msgs) + 1, !.ulen = ulen]]
  /\ started' = started + 1
  /\ pc' = [pc EXCEPT ![r] = "budget"]
  /\ UNCHANGED <<l2rows, l3rows, nextL2, nextL3>>
  /\ UNCHANGED aux

(***************************************************************************)
(* assemble_context up to the call of compact_to_budget: budgets, caps,    *)
(* the stored L2 and L3, the history, the L1 fill and the minimum          *)
(* guarantee.  The eager call of repo.ensure_l2_for_pairs_grouped raises   *)
(* AttributeError (the function does not exist), which is caught: nothing  *)
(* is written.                                                             *)
(***************************************************************************)
\* assemble_context up to the call of compact_to_budget, as a function of the
\* store and of the request l (window, requested output, user message): the
\* budgets, the caps and the blocks it builds.
assemble_blocks(ms, l2, l3, l) ==
  LET core_cap == CeilDiv(approx_tokens(CORE_TEXT_LEN) * 110, 100)
      bud == compute_budgets(l.w, l.w, l.req, core_cap)
      caps == level_caps(bud.B_work, 0)
      hist == get_thread_messages_for_l1(ms, l.cur)
      pairs_all == build_pairs_asc(hist)
      filled == fill_l1(pairs_all, 0, l3, l2, UserBlock(l.ulen), caps.l1, bud)
      chosen == min_guarantee(filled, Len(pairs_all) \div 2)
      l1 == flatten_pairs_asc(LastPairs(pairs_all, chosen))
      l0 == [l EXCEPT !.bud = bud, !.caps = caps, !.l1 = l1, !.l2 = l2,
                      !.l3 = l3, !.npairs = Len(pairs_all) \div 2]
  IN [l0 EXCEPT !.bd = bd(l0)]

Assemble(r) ==
  /\ pc[r] = "budget"
  /\ CanRun(r)
  /\ loc' = [loc EXCEPT ![r] = assemble_blocks(msgs, l2rows, l3rows, loc[r])]
  /\ msgs' = messages_after_load(msgs, loc[r].cur)
  /\ pc' = [pc EXCEPT ![r] = "pf_loop"]
  /\ UNCHANGED <<l2rows, l3rows, nextL2, nextL3, started>>
  /\ UNCHANGED aux

(***************************************************************************)
(* compact_to_budget: one pass of the loop head.                           *)
(***************************************************************************)
\* The task leaves compact_to_budget: assemble_context computes free_out_cap,
\* create_response counts the prompt and clamps the output budget.
pf_leave(l, why) ==
  [l EXCEPT !.exit = why, !.foc = free_out_cap(l), !.prompt = prompt_tok(l),
            !.eff = effective_max_output_tokens(l.req, free_out_cap(l))]

\* What one iteration of compact_to_budget decides at its head (lines 64-137)
\* from the blocks, the breakdown and the caps of l and from the L2 and L3
\* tables: to leave by the exit condition ("exit"), the step it performs
\* with its block or its K, or to leave because it performs none ("stall").
pf_step(l, l2, l3) ==
  LET l1_pct == pf_pct(l.bd.l1, l.caps.l1)
      l2_pct == pf_pct(l.bd.l2, l.caps.l2)
      l3_pct == pf_pct(l.bd.l3, l.caps.l3)
      need_more_room == free_out_cap(l) < R_OUT_MIN
      over_any == l1_pct > L1_HIGH \/ l2_pct > L2_HIGH \/ l3_pct > L3_HIGH
      block == pick_oldest_l2_block(l2, L3_GROUP_SIZE)
      pair_count == Len(l.l1) \div 2
      go_l3 == (l2_pct > L2_HIGH \/ (need_more_room /\ l.bd.l2 > 0)) /\ block # <<>>
      go_l2 == (l1_pct > L1_HIGH \/ (need_more_room /\ Len(l.l1) >= 2 * L1_MIN_PAIRS))
               /\ pair_count > 0
      go_ev == (l3_pct > L3_HIGH \/ (need_more_room /\ l.bd.l3 > 0)) /\ l3 # <<>>
      none == [kind |-> "stall", K |-> 0, blk |-> <<>>]
  IN IF ~over_any /\ ~need_more_room THEN [none EXCEPT !.kind = "exit"]
     ELSE IF go_l3 THEN [none EXCEPT !.kind = "l2_to_l3_group", !.blk = block]
     ELSE IF go_l2
     THEN [none EXCEPT !.kind = "l1_to_l2_group",
                       !.K = Min(L2_GROUP_SIZE, Max(1, pair_count - L1_MIN_PAIRS))]
     ELSE IF go_ev THEN [none EXCEPT !.kind = "l3_evict"]
     ELSE none

PfIter(r) ==
  /\ pc[r] = "pf_loop"
  /\ LET l == loc[r]
         step == pf_step(l, l2rows, l3rows)
         g == [l EXCEPT !.guard = l.guard + 1]
     IN IF l.guard >= PF_GUARD
        THEN /\ loc' = [loc EXCEPT ![r] = pf_leave(l, "guard")]
             /\ pc' = [pc EXCEPT ![r] = "gen"]
             /\ UNCHANGED l3rows
        ELSE IF step.kind = "exit"
        THEN /\ loc' = [loc EXCEPT ![r] = pf_leave(g, "ok")]
             /\ pc' = [pc EXCEPT ![r] = "gen"]
             /\ UNCHANGED l3rows
        ELSE IF step.kind = "l2_to_l3_group"
        THEN /\ loc' = [loc EXCEPT ![r] = [g EXCEPT !.blk = step.blk]]
             /\ pc' = [pc EXCEPT ![r] = "pf_l3_await"]
             /\ UNCHANGED l3rows
        ELSE IF step.kind = "l1_to_l2_group"
        THEN /\ loc' = [loc EXCEPT ![r] = [g EXCEPT !.K = step.K]]
             /\ pc' = [pc EXCEPT ![r] = "pf_l2_await"]
             /\ UNCHANGED l3rows
        ELSE IF step.kind = "l3_evict"
        THEN /\ l3rows' = evict_l3_oldest(l3rows, EVICT_COUNT)
             /\ LET e == [g EXCEPT !.l3 = l3rows',
                                   !.steps = Append(l.steps, "l3_evict")]
                IN loc' = [loc EXCEPT ![r] = [e EXCEPT !.bd = bd(e)]]
             /\ UNCHANGED pc
        ELSE /\ loc' = [loc EXCEPT ![r] = pf_leave(g, "stall")]
             /\ pc' = [pc EXCEPT ![r] = "gen"]
             /\ UNCHANGED l3rows
  /\ UNCHANGED <<msgs, l2rows, nextL2, nextL3, started>>
  /\ UNCHANGED aux


RowTexts(rows) == [i \in 1..Len(rows) |-> rows[i].txt]

\* The answers of the upstream to the calls of one summarize_l2_block_to_l3.
L3Answers == [1..(1 + L3_RETRY_ATTEMPTS) -> LlmOuts]

\* compact_to_budget, L2 -> L3, after the await: the text that is stored.
\* When the summarizer raises, the bullets of the first two rows are used;
\* building them raises IndexError (CRASH) when a row's text is empty.
pf_l3_text(block, outs) ==
  LET res == summarize_l2_block_to_l3(RowTexts(block), outs)
  IN IF res = RAISE THEN BlockBullets(RowTexts(block), 2, 160) ELSE res

\* The summarizer has answered: insert_l3_summary commits the L3 row.  The
\* IndexError of the fallback is not caught anywhere: the request ends with
\* HTTP 500, its user message staying saved.
PfL3Resume(r) ==
  /\ pc[r] = "pf_l3_await"
  /\ CanRun(r)
  /\ \E outs \in L3Answers :
       LET l == loc[r]
           txt == pf_l3_text(l.blk, outs)
       IN IF txt = CRASH
          THEN /\ pc' = [pc EXCEPT ![r] = "idle"]
               /\ loc' = [loc EXCEPT ![r] = LocIdle]
               /\ UNCHANGED <<l3rows, nextL3>>
          ELSE /\ l3rows' = insert_l3_summary(l3rows, nextL3, RowIds(l.blk), txt)
               /\ nextL3' = nextL3 + 1
               /\ pc' = [pc EXCEPT ![r] = "pf_l3_del"]
               /\ loc' = [loc EXCEPT ![r] = [l EXCEPT !.sum = txt]]
  /\ UNCHANGED <<msgs, l2rows, nextL2, started>>
  /\ UNCHANGED aux

\* delete_l2_batch commits in its own transaction, then L2 and L3 are read
\* again and the breakdown is recomputed.
PfL3Delete(r) ==
  /\ pc[r] = "pf_l3_del"
  /\ l2rows' = delete_l2_batch(l2rows, RowIds(loc[r].blk))
  /\ LET l == loc[r]
         e == [l EXCEPT !.l2 = l2rows', !.l3 = l3rows,
                        !.steps = Append(l.steps, "l2_to_l3_group")]
     IN loc' = [loc EXCEPT ![r] = [e EXCEPT !.bd = bd(e)]]
  /\ pc' = [pc EXCEPT ![r] = "pf_loop"]
  /\ UNCHANGED <<msgs, l3rows, nextL2, nextL3, started>>
  /\ UNCHANGED aux

\* The L2 text of a chunk of pairs: the summarizer's answer, or the bullets
\* of the first two pairs when it raises.
l2_text_of(chunk, out) ==
  IF out = RAISE THEN PairsBullets(chunk)
  ELSE summarize_pairs_group_to_l2(chunk, out)

\* compact_to_budget, L1 -> L2, after the await: the row is inserted, the
\* chunk leaves L1, L2 is read again.
PfL2Resume(r) ==
  /\ pc[r] = "pf_l2_await"
  /\ CanRun(r)
  /\ \E out \in LlmOuts :
       LET l == loc[r]
           chunk == Take(l.l1, 2 * l.K)
       IN /\ l2rows' = insert_l2_summary(l2rows, nextL2, chunk[1].id,
                                         chunk[Len(chunk)].id, l2_text_of(chunk, out))
          /\ LET e == [l EXCEPT !.l1 = Drop(l.l1, 2 * l.K), !.l2 = l2rows',
                                !.steps = Append(l.steps, "l1_to_l2_group")]
             IN loc' = [loc EXCEPT ![r] = [e EXCEPT !.bd = bd(e)]]
  /\ nextL2' = nextL2 + 1
  /\ pc' = [pc EXCEPT ![r] = "pf_loop"]
  /\ UNCHANGED <<msgs, l3rows, nextL3, started>>
  /\ UNCHANGED aux

(***************************************************************************)
(* packages/orchestration/after_reply.py                                   *)
(***************************************************************************)
\* _recompute_blocks_fill_to_cap, the fill: only the L1 cap is looked at.
RECURSIVE nz_fill(_, _, _, _, _)
nz_fill(pairs, n, l3, l2, l1cap) ==
  IF 2 * (n + 1) > Len(pairs) THEN n
  ELSE LET bd_try == tokens_breakdown(SysBlock, l3, l2, LastPairs(pairs, n + 1), <<>>)
       IN IF bd_try.l1 <= l1cap THEN nz_fill(pairs, n + 1, l3, l2, l1cap) ELSE n

\* _pct: int(round(100 * used / cap)), round being half-to-even; 0 when the
\* cap is 0.
nz_pct(used, cap) ==
  IF cap <= 0 THEN 0
  ELSE LET q == (100 * used) \div cap
           m == (100 * used) % cap
       IN IF 2 * m < cap THEN q
          ELSE IF 2 * m > cap THEN q + 1
          ELSE IF q % 2 = 0 THEN q ELSE q + 1

(***************************************************************************)
(* create_response, non-stream: the upstream answers or fails.  On success *)
(* the assistant message is saved and normalize_after_reply rebuilds its   *)
(* blocks from the store (_recompute_blocks_fill_to_cap); on failure the   *)
(* request ends with an HTTP error and nothing more is written.            *)
(***************************************************************************)
Generate(r) ==
  /\ pc[r] = "gen"
  /\ CanRun(r)
  /\ \/ \E alen \in AsstLens, th \in ThinkLens :
          LET l == loc[r]
              saved == append_message(msgs, "assistant", alen, th)
              hist == get_thread_messages_for_l1(saved, 0)
              pairs_all == build_pairs_asc(hist)
              filled == nz_fill(pairs_all, 0, l3rows, l2rows, l.caps.l1)
              chosen == min_guarantee(filled, Len(pairs_all) \div 2)
              n0 == [l EXCEPT !.l1 = LastPairs(pairs_all, chosen), !.l2 = l2rows,
                              !.l3 = l3rows, !.ulen = 0, !.guard = 0, !.exit = "none",
                              !.blk = <<>>, !.K = 0, !.sum = T_EMPTY,
                              !.npairs = Len(pairs_all) \div 2]
          IN /\ msgs' = messages_after_load(saved, 0)
             /\ loc' = [loc EXCEPT ![r] = [n0 EXCEPT !.bd = bd(n0)]]
             /\ pc' = [pc EXCEPT ![r] = "nz_loop"]
     \/ /\ pc' = [pc EXCEPT ![r] = "idle"]
        /\ loc' = [loc EXCEPT ![r] = LocIdle]
        /\ UNCHANGED msgs
  /\ UNCHANGED <<l2rows, l3rows, nextL2, nextL3, started>>
  /\ UNCHANGED aux


(***************************************************************************)
(* normalize_after_reply: the loop.                                        *)
(***************************************************************************)
nz_all_low(l) ==
  /\ nz_pct(l.bd.l1, l.caps.l1) <= L1_LOW
  /\ nz_pct(l.bd.l2, l.caps.l2) <= L2_LOW
  /\ nz_pct(l.bd.l3, l.caps.l3) <= L3_LOW

\* After a step that did something: L2 and L3 are read again, the breakdown
\* is recomputed, and the loop ends when every level is at or under LOW.
nz_reload(l, l2now, l3now) ==
  LET e == [l EXCEPT !.l2 = l2now, !.l3 = l3now]
  IN [e EXCEPT !.bd = bd(e)]

nz_next_pc(l) == IF nz_all_low(l) THEN "mem" ELSE "nz_loop"

\* What one iteration of normalize_after_reply decides at its head (lines
\* 103-163) from the blocks, the breakdown and the caps of l and from the L2
\* and L3 tables: the step it begins with its block or its K, or "stall"
\* when it performs none.  The branches are an if / elif / elif.
nz_step(l, l2, l3) ==
  LET l1_pct == nz_pct(l.bd.l1, l.caps.l1)
      l2_pct == nz_pct(l.bd.l2, l.caps.l2)
      l3_pct == nz_pct(l.bd.l3, l.caps.l3)
      pair_count == Len(l.l1) \div 2
      block == pick_oldest_l2_block(l2, L3_GROUP_SIZE)
      none == [kind |-> "stall", K |-> 0, blk |-> <<>>]
  IN IF l1_pct > L1_HIGH
     THEN IF pair_count > 0
          THEN [none EXCEPT !.kind = "l1_to_l2_group",
                            !.K = Min(L2_GROUP_SIZE, pair_count)]
          ELSE none
     ELSE IF l2_pct > L2_HIGH
     THEN IF block # <<>> THEN [none EXCEPT !.kind = "l2_to_l3_group", !.blk = block]
          ELSE none
     ELSE IF l3_pct > L3_HIGH /\ l3 # <<>> THEN [none EXCEPT !.kind = "l3_evict"]
     ELSE none

NzIter(r) ==
  /\ pc[r] = "nz_loop"
  /\ LET l == loc[r]
         step == nz_step(l, l2rows, l3rows)
         g == [l EXCEPT !.guard = l.guard + 1]
     IN IF l.guard >= NZ_GUARD
        THEN /\ pc' = [pc EXCEPT ![r] = "mem"]
             /\ loc' = [loc EXCEPT ![r] = [l EXCEPT !.exit = "guard"]]
             /\ UNCHANGED l3rows
        ELSE IF step.kind = "l1_to_l2_group"
        THEN /\ pc' = [pc EXCEPT ![r] = "nz_l2_await"]
             /\ loc' = [loc EXCEPT ![r] = [g EXCEPT !.K = step.K]]
             /\ UNCHANGED l3rows
        ELSE IF step.kind = "l2_to_l3_group"
        THEN /\ pc' = [pc EXCEPT ![r] = "nz_l3_await"]
             /\ loc' = [loc EXCEPT ![r] = [g EXCEPT !.blk = step.blk]]
             /\ UNCHANGED l3rows
        ELSE IF step.kind = "l3_evict"
        THEN /\ l3rows' = evict_l3_oldest(l3rows, EVICT_COUNT)
             /\ LET e == nz_reload([g EXCEPT !.nsteps = Append(l.nsteps, "l3_evict")],
                                   l2rows, l3rows')
                IN /\ loc' = [loc EXCEPT ![r] =
                                [e EXCEPT !.exit = IF nz_all_low(e) THEN "low" ELSE "none"]]
                   /\ pc' = [pc EXCEPT ![r] = nz_next_pc(e)]
        ELSE /\ pc' = [pc EXCEPT ![r] = "mem"]
             /\ loc' = [loc EXCEPT ![r] = [g EXCEPT !.exit = "stall"]]
             /\ UNCHANGED l3rows
  /\ UNCHANGED <<msgs, l2rows, nextL2, nextL3, started>>
  /\ UNCHANGED aux

\* L1 -> L2 after the await.
NzL2Resume(r) ==
  /\ pc[r] = "nz_l2_await"
  /\ CanRun(r)
  /\ \E out \in LlmOuts :
       LET l == loc[r]
           chunk == Take(l.l1, 2 * l.K)
       IN /\ l2rows' = insert_l2_summary(l2rows, nextL2, chunk[1].id,
                                         chunk[Len(chunk)].id, l2_text_of(chunk, out))
          /\ LET e == nz_reload([l EXCEPT !.l1 = Drop(l.l1, 2 * l.K),
                                          !.nsteps = Append(l.nsteps, "l1_to_l2_group")],
                                l2rows', l3rows)
             IN /\ loc' = [loc EXCEPT ![r] =
                             [e EXCEPT !.exit = IF nz_all_low(e) THEN "low" ELSE "none"]]
                /\ pc' = [pc EXCEPT ![r] = nz_next_pc(e)]
  /\ nextL2' = nextL2 + 1
  /\ UNCHANGED <<msgs, l3rows, nextL3, started>>
  /\ UNCHANGED aux

\* t[:200] for every text of a block.
Truncated(texts) ==
  [i \in 1..Len(texts) |->
     IF texts[i].len + texts[i].bul <= 200 THEN texts[i]
     ELSE Txt(Max(0, 200 - texts[i].bul), Min(200, texts[i].bul), texts[i].alnum)]

\* L2 -> L3 with quality control: the summary of the block, a second attempt
\* on truncated inputs when the first is not meaningful.  RAISE when a call
\* raises.
nz_l3_text(block, outs1, outs2) ==
  LET first == summarize_l2_block_to_l3(RowTexts(block), outs1)
  IN IF first = RAISE THEN RAISE
     ELSE IF is_meaningful(first) THEN first
     ELSE summarize_l2_block_to_l3(Truncated(RowTexts(block)), outs2)

\* Whether the second attempt is made.
nz_retries(block, outs1) ==
  LET first == summarize_l2_block_to_l3(RowTexts(block), outs1)
  IN first # RAISE /\ ~is_meaningful(first)

\* L2 -> L3 after the awaits.  A meaningful summary is inserted; otherwise
\* (not meaningful, or the summarizer raised) a warning is logged, nothing is
\* written and the loop ends.
NzL3Resume(r) ==
  /\ pc[r] = "nz_l3_await"
  /\ CanRun(r)
  /\ \E outs1 \in L3Answers :
     \E outs2 \in IF nz_retries(loc[r].blk, outs1) THEN L3Answers
                  ELSE {[i \in 1..(1 + L3_RETRY_ATTEMPTS) |-> RAISE]} :
       LET l == loc[r]
           txt == nz_l3_text(l.blk, outs1, outs2)
       IN IF txt # RAISE /\ is_meaningful(txt)
          THEN /\ l3rows' = insert_l3_summary(l3rows, nextL3, RowIds(l.blk), txt)
               /\ nextL3' = nextL3 + 1
               /\ pc' = [pc EXCEPT ![r] = "nz_l3_del"]
               /\ loc' = [loc EXCEPT ![r] = [l EXCEPT !.sum = txt]]
          ELSE /\ pc' = [pc EXCEPT ![r] = "mem"]
               /\ loc' = [loc EXCEPT ![r] = [l EXCEPT !.sum = txt, !.exit = "skip"]]
               /\ UNCHANGED <<l3rows, nextL3>>
  /\ UNCHANGED <<msgs, l2rows, nextL2, started>>
  /\ UNCHANGED aux

NzL3Delete(r) ==
  /\ pc[r] = "nz_l3_del"
  /\ l2rows' = delete_l2_batch(l2rows, RowIds(loc[r].blk))
  /\ LET l == loc[r]
         e == nz_reload([l EXCEPT !.nsteps = Append(l.nsteps, "l2_to_l3_group")],
                        l2rows', l3rows)
     IN /\ loc' = [loc EXCEPT ![r] =
                     [e EXCEPT !.exit = IF nz_all_low(e) THEN "low" ELSE "none"]]
        /\ pc' = [pc EXCEPT ![r] = nz_next_pc(e)]
  /\ UNCHANGED <<msgs, l3rows, nextL2, nextL3, started>>
  /\ UNCHANGED aux


(***************************************************************************)
(* packages/orchestration/memory_manager.py                                *)
(***************************************************************************)
\* (1 - tools_share) * mem_l1_share * B_work in ten-thousandths, tools_share
\* being min(mem_tools_max_share, tools_tokens / max(1, B_work)).
l1_share_of(B_work, tools_tokens) ==
  IF tools_tokens <= 0 THEN 100 * mem_l1_share * B_work
  ELSE IF 100 * tools_tokens >= mem_tools_max_share * Max(1, B_work)
  THEN (100 - mem_tools_max_share) * mem_l1_share * B_work
  ELSE 100 * mem_l1_share * (B_work - tools_tokens)

\* The product is computed in binary floating point: where the exact product
\* with a tools share is a whole number the computed one can fall just below
\* it, and floor then yields one less.  Both outcomes are kept.
FloorLoss(B_work, tools_tokens) ==
  IF /\ tools_tokens > 0
     /\ l1_share_of(B_work, tools_tokens) > 0
     /\ l1_share_of(B_work, tools_tokens) % 10000 = 0
  THEN {0, 1} ELSE {0}

\* compute_level_caps; loss is the loss of the floor of the L1 product.
compute_level_caps(B_work, tools_tokens, loss) ==
  IF B_work <= 0 THEN ZeroCaps
  ELSE [l1 |-> l1_share_of(B_work, tools_tokens) \div 10000 - loss,
        l2 |-> (mem_l2_share * B_work) \div 100,
        l3 |-> (mem_l3_share * B_work) \div 100]

\* build_l1_pairs: walking from the end, an assistant message directly after
\* a user message makes a pair; the texts are cut to the per-role caps.  The
\* result is the list of [u, a] character counts, oldest first.
RECURSIVE build_l1_pairs(_, _)
build_l1_pairs(ms, i) ==
  IF i < 1 THEN <<>>
  ELSE IF ms[i].role = "assistant" /\ i - 1 >= 1 /\ ms[i - 1].role = "user"
  THEN LET u == IF approx_tokens(ms[i - 1].len) > cap_tok_user
                THEN cap_tok_user * 4 ELSE ms[i - 1].len
           a == IF approx_tokens(ms[i].len) > cap_tok_assistant
                THEN cap_tok_assistant * 4 ELSE ms[i].len
       IN Append(build_l1_pairs(ms, i - 2), [u |-> u, a |-> a])
  ELSE build_l1_pairs(ms, i - 1)

\* _summarize_pairs_to_bullets on one-line texts: "- <u[:200]> -> <a[:200]>"
\* per pair; CRASH (IndexError) when a text is empty.
summarize_pairs_to_bullets(pairs) ==
  IF \E i \in 1..Len(pairs) : pairs[i].u = 0 \/ pairs[i].a = 0 THEN CRASH
  ELSE Txt(SumSeq([i \in 1..Len(pairs) |->
                     Min(200, pairs[i].u) + 3 + Min(200, pairs[i].a)])
           + 3 * (Len(pairs) - 1), 2, TRUE)

\* free_pct(used, cap) < mem_free_threshold, in integers.
low_free(used, cap) ==
  IF cap <= 0 THEN TRUE
  ELSE 100 * Max(0, cap - Max(0, used)) < mem_free_threshold * cap

RowTokens(rows) == SumSeq([i \in 1..Len(rows) |-> approx_tokens(RawLen(rows[i].txt))])

\* trim_l3_if_over: the oldest rows go while the total exceeds max_tokens.
RECURSIVE trim_l3_if_over(_, _)
trim_l3_if_over(rows, max_tokens) ==
  IF rows # <<>> /\ RowTokens(rows) > max_tokens
  THEN trim_l3_if_over(Tail(rows), max_tokens) ELSE rows

\* insert_l2 and insert_l3: plain inserts.
insert_l2(rows, id, start_msg_id, end_msg_id, txt) ==
  Append(rows, [id |-> id, s |-> start_msg_id, e |-> end_msg_id, txt |-> txt])

insert_l3(rows, id, start_l2_id, end_l2_id, txt) ==
  Append(rows, [id |-> id, s2 |-> start_l2_id, e2 |-> end_l2_id, txt |-> txt])

\* update_memory, run by create_response after the response is saved.  Its
\* transactions follow each other without an await.  First the messages
\* are loaded and, when L1 is short of free room, promote_l1_to_l2 stores an
\* L2 row whose message ids are the placeholder "auto" (0 here).  An
\* IndexError ends update_memory (create_response ignores it).
\* update_memory, lines 97-114: the pairs of the messages since last_id,
\* their tokens against the L1 cap; whether the oldest pairs are promoted and
\* with what text.
promote_l1(ms, last_id, B_work) ==
  LET loaded == get_messages_since(ms, last_id)
      pairs == build_l1_pairs(loaded, Len(loaded))
      l1_tokens == SumSeq([i \in 1..Len(pairs) |->
                     approx_tokens(pairs[i].u) + approx_tokens(pairs[i].a)])
      caps == compute_level_caps(B_work, 0, 0)
      go == caps.l1 > 0 /\ low_free(l1_tokens, caps.l1) /\ pairs # <<>>
  IN [go |-> go,
      text |-> IF go
               THEN summarize_pairs_to_bullets(Take(pairs, mem_promotion_batch_size))
               ELSE T_EMPTY]

MemPromoteL1(r) ==
  /\ pc[r] = "mem"
  /\ LET l == loc[r]
         p == promote_l1(msgs, last_compacted_message_id, l.bud.B_work)
         go == p.go
         text == p.text
     IN /\ msgs' = messages_after_load(msgs, 0)
        /\ IF go /\ text = CRASH
           THEN /\ pc' = [pc EXCEPT ![r] = "idle"]
                /\ loc' = [loc EXCEPT ![r] = LocIdle]
                /\ UNCHANGED <<l2rows, nextL2>>
           ELSE /\ pc' = [pc EXCEPT ![r] = "mem_l2"]
                /\ l2rows' = IF go THEN insert_l2(l2rows, nextL2, 0, 0, text) ELSE l2rows
                /\ nextL2' = IF go THEN nextL2 + 1 ELSE nextL2
                /\ UNCHANGED loc
  /\ UNCHANGED <<l3rows, nextL3, started>>
  /\ UNCHANGED aux

\* Then, when L2 is short of free room, promote_l2_to_l3 stores an L3 row
\* over the first rows of L2 and leaves L2 as it is.
MemPromoteL2(r) ==
  /\ pc[r] = "mem_l2"
  /\ LET caps == compute_level_caps(loc[r].bud.B_work, 0, 0)
         go == caps.l2 > 0 /\ low_free(RowTokens(l2rows), caps.l2) /\ l2rows # <<>>
         take == Take(l2rows, mem_promotion_batch_size)
         text == BlockBullets(RowTexts(take), mem_promotion_batch_size, 200)
     IN IF go /\ text = CRASH
        THEN /\ pc' = [pc EXCEPT ![r] = "idle"]
             /\ loc' = [loc EXCEPT ![r] = LocIdle]
             /\ UNCHANGED <<l3rows, nextL3>>
        ELSE /\ pc' = [pc EXCEPT ![r] = "mem_l3"]
             /\ l3rows' = IF go THEN insert_l3(l3rows, nextL3, take[1].id,
                                               take[Len(take)].id, text)
                          ELSE l3rows
             /\ nextL3' = IF go THEN nextL3 + 1 ELSE nextL3
             /\ UNCHANGED loc
  /\ UNCHANGED <<msgs, l2rows, nextL2, started>>
  /\ UNCHANGED aux

\* Last, L3 is trimmed when over its cap; the request is done.
MemTrimL3(r) ==
  /\ pc[r] = "mem_l3"
  /\ LET caps == compute_level_caps(loc[r].bud.B_work, 0, 0)
     IN l3rows' = IF caps.l3 > 0 /\ RowTokens(l3rows) > caps.l3
                  THEN trim_l3_if_over(l3rows, caps.l3) ELSE l3rows
  /\ pc' = [pc EXCEPT ![r] = "idle"]
  /\ loc' = [loc EXCEPT ![r] = LocIdle]
  /\ UNCHANGED <<msgs, l2rows, nextL2, nextL3, started>>
  /\ UNCHANGED aux

Next ==
  \E r \in Req :
    \/ Start(r)
    \/ Assemble(r)
    \/ PfIter(r)
    \/ PfL3Resume(r)
    \/ PfL3Delete(r)
    \/ PfL2Resume(r)
    \/ Generate(r)
    \/ NzIter(r)
    \/ NzL2Resume(r)
    \/ NzL3Resume(r)
    \/ NzL3Delete(r)
    \/ MemPromoteL1(r)
    \/ MemPromoteL2(r)
    \/ MemTrimL3(r)

Spec == Init /\ [][Next]_vars

(***************************************************************************)
(* A thread with a past.  The thread has served n exchanges under a larger *)
(* context window (loaded_context_length is read from the provider at      *)
(* every request and changes when another model is loaded): its messages   *)
(* are all stored, the L2 rows made of them have all been folded into L3   *)
(* rows, one meaningful line each, and the L3 cap of that window held      *)
(* them.  One more request then meets a window of Windows.                 *)
(***************************************************************************)
\* A seed is the number of exchanges and whether the last two overlapped:
\* two requests were served at once, both user messages were saved before
\* either reply.
Seeds == {<<MinSeedL3, FALSE>>, <<MinSeedL3, TRUE>>, <<MaxSeedL3, FALSE>>}

SeedRole(n, overlapped, i) ==
  IF overlapped /\ i > 2 * n - 4
  THEN (IF i <= 2 * n - 2 THEN "user" ELSE "assistant")
  ELSE (IF i % 2 = 1 THEN "user" ELSE "assistant")

SeedMsgs(n, overlapped) ==
  [i \in 1..(2 * n) |->
     IF SeedRole(n, overlapped, i) = "user"
     THEN [id |-> i, role |-> "user", len |-> 40, think |-> 0, sent |-> 0]
     ELSE [id |-> i, role |-> "assistant", len |-> 400, think |-> 0, sent |-> 0]]

SeedL3(n) == [i \in 1..n |-> [id |-> i, s2 |-> i, e2 |-> i, txt |-> T_LINE]]

InitSeeded ==
  \E sd \in Seeds :
    /\ msgs = SeedMsgs(sd[1], sd[2])
    /\ l2rows = <<>>
    /\ l3rows = SeedL3(sd[1])
    /\ nextL2 = sd[1] + 1
    /\ nextL3 = sd[1] + 1
    /\ pc = [r \in Req |-> "idle"]
    /\ loc = [r \in Req |-> LocIdle]
    /\ started = MaxRequests - 1     \* one more request is followed
    /\ AuxInit

SpecSeeded == InitSeeded /\ [][Next]_vars

(***************************************************************************)
(* A thread with a history and no summaries: HistPairs exchanges were      *)
(* appended to it (a user message of 121 characters, a reply of 601), as   *)
(* a client of the repository does, and nothing was stored in L2 or L3.    *)
(* One more request then meets a window of Windows.                        *)
(***************************************************************************)
HistMsgs ==
  [i \in 1..(2 * HistPairs) |->
     IF i % 2 = 1
     THEN [id |-> i, role |-> "user", len |-> 121, think |-> 0, sent |-> 0]
     ELSE [id |-> i, role |-> "assistant", len |-> 601, think |-> 0, sent |-> 0]]

InitHistory ==
  /\ msgs = HistMsgs
  /\ l2rows = <<>>
  /\ l3rows = <<>>
  /\ nextL2 = 1
  /\ nextL3 = 1
  /\ pc = [r \in Req |-> "idle"]
  /\ loc = [r \in Req |-> LocIdle]
  /\ started = MaxRequests - 1     \* one more request is followed
  /\ AuxInit

SpecHistory == InitHistory /\ [][Next]_vars

(***************************************************************************)
(* apps/api/main.py: create_response with stream = True.  event_iter       *)
(* starts produce_loop as a task and forwards the chunks of its queue to   *)
(* the client.  What normalize_after_reply does to the store is in NzIter  *)
(* and the actions after it; here it is one awaited call.                  *)
(***************************************************************************)
\* The request is accepted and its user message saved; the response is
\* registered in ACTIVE_STREAMS; produce_loop queues the user echo, the
\* meta event and the first meta.update, and awaits the first fragment.
StreamOpen ==
  /\ stream.prod = "none"
  /\ stream.opened < MaxStreams
  /\ \E ulen \in UserLens : msgs' = append_message(msgs, "user", ulen, 0)
  /\ stream' = [StreamIdle EXCEPT !.active = TRUE, !.queue = 3, !.prod = "frag",
                                  !.cons = "pull", !.opened = stream.opened + 1]
  /\ UNCHANGED <<l2rows, l3rows, nextL2, nextL3, pc, loc, started, stream_frame>>

\* What produce_loop does once the fragment loop is left: the collected text
\* is saved as an assistant message, then normalize_after_reply is awaited.
stream_persist(st) == [st EXCEPT !.prod = "normalize"]

\* The upstream yields a fragment.  A set cancel flag is seen here, and only
\* here: the loop is left and the fragment dropped.
UpstreamFragment ==
  /\ stream.prod = "frag"
  /\ IF stream.flag
     THEN /\ stream' = stream_persist(stream)
          /\ msgs' = append_message(msgs, "assistant", stream.collected * FragLen, 0)
     ELSE /\ stream.collected < MaxFrags
          /\ stream' = [stream EXCEPT !.collected = stream.collected + 1,
                                      !.queue = stream.queue + 1]
          /\ UNCHANGED msgs
  /\ UNCHANGED <<l2rows, l3rows, nextL2, nextL3, pc, loc, started, stream_frame>>

\* The upstream ends the stream.
UpstreamEnd ==
  /\ stream.prod = "frag"
  /\ stream' = stream_persist(stream)
  /\ msgs' = append_message(msgs, "assistant", stream.collected * FragLen, 0)
  /\ UNCHANGED <<l2rows, l3rows, nextL2, nextL3, pc, loc, started, stream_frame>>

\* The upstream fails: an error event is queued and produce_loop returns.
UpstreamError ==
  /\ stream.prod = "frag"
  /\ stream' = [stream EXCEPT !.queue = stream.queue + 1, !.done = TRUE,
                              !.prod = "error"]
  /\ UNCHANGED <<store_vars, stream_frame>>

\* normalize_after_reply returns (an exception of it is swallowed).  The
\* rest of produce_loop has no await that suspends: the response is saved
\* with the status the flag gives now, update_memory runs, the last events
\* are queued and done_event is set.
NormalizeDone ==
  /\ stream.prod = "normalize"
  /\ \E raised \in BOOLEAN :
       stream' = [stream EXCEPT
                    !.normalized = ~raised,
                    !.status = IF stream.flag THEN "cancelled" ELSE "completed",
                    !.queue = stream.queue + (IF raised THEN 0 ELSE 1) + 4,
                    !.done = TRUE,
                    !.prod = "done"]
  /\ UNCHANGED <<store_vars, stream_frame>>

\* cancel_response: the flag of a registered response is set.
CancelEndpoint ==
  /\ stream.active
  /\ stream' = [stream EXCEPT !.flag = TRUE,
                  !.at_cancel = IF stream.flag THEN stream.at_cancel
                                ELSE stream.collected]
  /\ UNCHANGED <<store_vars, stream_frame>>

\* event_iter takes a chunk from the queue and yields it.
ConsumerPull ==
  /\ stream.cons = "pull"
  /\ stream.queue > 0
  /\ stream' = [stream EXCEPT !.queue = stream.queue - 1]
  /\ UNCHANGED <<store_vars, stream_frame>>

\* The finally clause of event_iter: prod_task.cancel() ends produce_loop
\* at the await it stands at; the response leaves ACTIVE_STREAMS.
stream_close(st) ==
  [st EXCEPT !.prod = IF st.prod \in {"frag", "normalize"} THEN "killed" ELSE st.prod,
             !.active = FALSE, !.cons = "closed"]

\* done_event is set and the queue is empty: event_iter leaves its loop.
ConsumerFinish ==
  /\ stream.cons = "pull"
  /\ stream.done /\ stream.queue = 0
  /\ stream' = stream_close(stream)
  /\ UNCHANGED <<store_vars, stream_frame>>

\* The client disconnects: event_iter is cancelled at its await, sets the
\* flag in its except clause and runs its finally clause.
ClientDisconnect ==
  /\ stream.cons = "pull"
  /\ stream' = stream_close([stream EXCEPT !.flag = TRUE,
                               !.at_cancel = IF stream.flag THEN stream.at_cancel
                                             ELSE stream.collected])
  /\ UNCHANGED <<store_vars, stream_frame>>

\* The steps the event loop and the upstream take by themselves.
StreamProgress ==
  \/ UpstreamFragment
  \/ UpstreamEnd
  \/ NormalizeDone
  \/ ConsumerPull
  \/ ConsumerFinish

NextStream ==
  \/ StreamOpen
  \/ UpstreamFragment
  \/ UpstreamEnd
  \/ UpstreamError
  \/ NormalizeDone
  \/ CancelEndpoint
  \/ ConsumerPull
  \/ ConsumerFinish
  \/ ClientDisconnect

\* The event loop runs every task that can run and the upstream answers:
\* a step of StreamProgress that stays possible is taken.
SpecStream == Init /\ [][NextStream]_vars /\ WF_vars(StreamProgress)

(***************************************************************************)
(* packages/providers/lmstudio_tokens.py: count_tokens_chat with its cache *)
(* and the upstream; orchestration/token_budget.py: tokens_breakdown, one  *)
(* cumulative count at a time; apps/api/main.py: the count create_response *)
(* makes of provider_messages, whose mode it reports.                      *)
(***************************************************************************)
\* Seconds an entry of _cache is served by count_tokens_chat.
TOKEN_CACHE_SEC == 60

\* What the upstream does with one POST /v1/chat/completions: it answers 200
\* with usage.prompt_tokens, the client times out, the transport fails, the
\* status is not 200, usage.prompt_tokens is missing, or it is not positive.
Outcomes == {"ok", "timeout", "transport", "non200", "missing", "zero"}
Failures == Outcomes \ {"ok"}

\* usage.prompt_tokens of a successful answer: the count of the tokenizer of
\* the model, which is not the character heuristic.
UpstreamTokens(lens) == SumSeq([i \in 1..Len(lens) |-> CeilDiv(lens[i], 3) + 4])

\* The try block up to n: an exception (post, raise_for_status, json), or
\* int(usage.get("prompt_tokens", 0)).
http_usage(out, lens) ==
  IF out \in {"timeout", "transport", "non200"} THEN [raised |-> TRUE, n |-> 0]
  ELSE [raised |-> FALSE, n |-> IF out = "ok" THEN UpstreamTokens(lens) ELSE 0]

\* A test of n that lets 0 through.
usage_nonneg(n) == n >= 0

\* if n > 0
usage_positive(n) == n > 0

\* approx_tokens_messages: 4 characters a token, rounded up, at least 1 for
\* a message that is not empty.
approx_tokens_messages(lens) == count_tokens_chat(lens)

\* A lookup that serves an entry whatever its age.
cache_get_any_age(c, k, now) == {x \in c : x.k = k}

\* The entries of the cache that answer a call for key k at time now.
cache_get(c, k, now) == {x \in c : x.k = k /\ now - x.t < TOKEN_CACHE_SEC}

\* _cache[k] = {...}
cache_put(c, k, n, now, mode) ==
  {x \in c : x.k # k} \cup {[k |-> k, n |-> n, t |-> now, mode |-> mode]}

\* count_tokens_chat with use_cache: the value and the mode returned, the
\* cache it leaves, and what the upstream did ("hit" when it was not asked).
count_tokens_chat_http(c, now, lens, out) ==
  LET hit == cache_get(c, lens, now)
      u == http_usage(out, lens)
  IN IF hit # {}
     THEN LET x == CHOOSE x \in hit : TRUE
          IN [n |-> x.n, mode |-> x.mode, cache |-> c, out |-> "hit"]
     ELSE IF ~u.raised /\ usage_positive(u.n)
     THEN [n |-> u.n, mode |-> "proxy-http",
           cache |-> cache_put(c, lens, u.n, now, "proxy-http"), out |-> out]
     ELSE [n |-> approx_tokens_messages(lens), mode |-> "approx",
           cache |-> cache_put(c, lens, approx_tokens_messages(lens), now, "approx"),
           out |-> out]

\* The message lists a breakdown is asked for: the system block, L3 with a
\* row or without, a pair in L1, the user message.
TokBlocks ==
  {[system |-> SysBlock, l3 |-> l3, l2 |-> <<>>, l1 |-> <<40, 400>>,
    user |-> UserBlock(40)] : l3 \in {<<>>, <<40>>}}

\* sys_msgs, l3_msgs_full, l2_msgs_full, l1_msgs_full, all_msgs.
cumulative(b, i) ==
  IF i = 1 THEN b.system
  ELSE IF i = 2 THEN b.system \o b.l3
  ELSE IF i = 3 THEN b.system \o b.l3 \o b.l2
  ELSE IF i = 4 THEN b.system \o b.l3 \o b.l2 \o b.l1
  ELSE b.system \o b.l3 \o b.l2 \o b.l1 \o b.user

\* final_mode of tokens_breakdown.
final_mode(modes) ==
  IF \E i \in 1..Len(modes) : modes[i] = "approx" THEN "approx"
  ELSE modes[Len(modes)]

\* assemble_context asks for a breakdown of its blocks.
TokStart ==
  /\ tok.pos \in {0, 7}
  /\ tok.runs < MaxBreakdowns
  /\ \E b \in TokBlocks :
       tok' = [tok EXCEPT !.blocks = b, !.pos = 1, !.modes = <<>>,
                          !.bd_mode = "none", !.reported = "none",
                          !.runs = tok.runs + 1]
  /\ UNCHANGED tok_frame

\* tokens_breakdown._count: the next cumulative count.
TokCount ==
  /\ tok.pos \in 1..5
  /\ \E out \in Outcomes :
       LET lens == cumulative(tok.blocks, tok.pos)
           r == count_tokens_chat_http(tok.cache, tok.now, lens, out)
           modes == Append(tok.modes, r.mode)
       IN tok' = [tok EXCEPT !.cache = r.cache, !.modes = modes,
                             !.last = [out |-> r.out, n |-> r.n, mode |-> r.mode,
                                       lens |-> lens],
                             !.pos = tok.pos + 1,
                             !.bd_mode = IF tok.pos = 5 THEN final_mode(modes)
                                         ELSE "none"]
  /\ UNCHANGED tok_frame

\* create_response counts provider_messages, the blocks of the breakdown in
\* one list, and writes the mode of that count over token_count_mode.
TokReport ==
  /\ tok.pos = 6
  /\ \E out \in Outcomes :
       LET lens == cumulative(tok.blocks, 5)
           r == count_tokens_chat_http(tok.cache, tok.now, lens, out)
       IN tok' = [tok EXCEPT !.cache = r.cache,
                             !.last = [out |-> r.out, n |-> r.n, mode |-> r.mode,
                                       lens |-> lens],
                             !.pos = 7, !.reported = r.mode]
  /\ UNCHANGED tok_frame

\* Time passes.
TokTick ==
  /\ tok.now < MaxClock
  /\ tok' = [tok EXCEPT !.now = tok.now + TickSec]
  /\ UNCHANGED tok_frame

NextTok ==
  \/ TokStart
  \/ TokCount
  \/ TokReport
  \/ TokTick

SpecTok == Init /\ [][NextTok]_vars

(***************************************************************************)
(* packages/orchestration/budget.py: compute_budgets as a function of the  *)
(* model info, the request and core_cap.  A model info is drawn and a      *)
(* budget computed for one request, then for a second request with the     *)
(* same model info.                                                        *)
(***************************************************************************)
\* loaded_context_length and max_context_length of a model info (0: none),
\* max_output_tokens of a request (0: none given), core_cap of the caller.
LoadedLens == {0, 1, 128, 512, 2048, 4096}
MaxLens == {0, 32768}
RequestedOut == {0, 64, 128, 512, 600, 10000}
CoreCaps == {47, 200, 6000}

BudgetCall ==
  /\ \E loaded \in LoadedLens, mx \in MaxLens, cc \in CoreCaps, m \in RequestedOut :
       bq' = [BqIdle EXCEPT !.loaded = loaded, !.mx = mx, !.core_cap = cc,
                            !.m1 = m, !.b1 = compute_budgets(loaded, mx, m, cc),
                            !.n = 1]
  /\ UNCHANGED bq_frame

BudgetAgain ==
  /\ bq.n = 1
  /\ \E m \in RequestedOut :
       bq' = [bq EXCEPT !.m2 = m,
                        !.b2 = compute_budgets(bq.loaded, bq.mx, m, bq.core_cap),
                        !.n = 2]
  /\ UNCHANGED bq_frame

\* The tokens of the tool results of a request.
ToolTokens == {0, 1, 7, 100, 5000}

\* The caps for the budget of the first call and for tool results of some
\* size: those of assemble_context with the tokens it counts as used, and
\* those of compute_level_caps.
BudgetCaps ==
  /\ bq.n = 1
  /\ ~bq.capped
  /\ \E t \in ToolTokens :
     \E loss \in FloorLoss(bq.b1.B_work, t) :
       bq' = [bq EXCEPT !.tools = t,
                        !.used = tools_used(bq.b1.B_work, t),
                        !.caps = level_caps(bq.b1.B_work, t),
                        !.mcaps = compute_level_caps(bq.b1.B_work, t, loss),
                        !.capped = TRUE]
  /\ UNCHANGED bq_frame

NextBudget ==
  \/ BudgetCall
  \/ BudgetAgain
  \/ BudgetCaps

SpecBudget == Init /\ [][NextBudget]_vars

(***************************************************************************)
(* packages/orchestration/budget.py: _get_model_info_cached and the        *)
(* polling loop of compute_budgets; providers/lmstudio_cache.py: the       *)
(* cache and the lock of a key; providers/lmstudio_model_info.py: the      *)
(* probe.  Callers run on one event loop: a step goes from one await to    *)
(* the next.                                                               *)
(***************************************************************************)
ctx_model_info_ttl_sec == 300
PROVISIONAL_TTL == 2
POLL_TRIES == 10

\* Seconds the clock may advance by in one step.
TickSteps == {2, 299}

\* fetch_model_info: what a probe may return given the state of the model.
\* A failed request returns the default record, which has no state.
fetch_model_info(up) ==
  {[state |-> "none", loaded |-> 0, mx |-> ctx_default_context_length,
    source |-> "default"],
   IF up = "loaded"
   THEN [state |-> "loaded", loaded |-> 2048, mx |-> 32768,
         source |-> "lmstudio.loaded_context_length"]
   ELSE [state |-> "not-loaded", loaded |-> 0, mx |-> 32768,
         source |-> "lmstudio.max_context_length"]}

\* state == "loaded" and loaded_context_length is an int
is_loaded(d) == d.state = "loaded" /\ d.loaded > 0

provisional(d) == d.source = "default" \/ d.state # "loaded" \/ d.loaded = 0

\* A ttl that is the full one for every record.
ttl_always_full(d) == ctx_model_info_ttl_sec

\* ttl of _get_model_info_cached
ttl_of(d) == IF provisional(d) THEN PROVISIONAL_TTL ELSE ctx_model_info_ttl_sec

\* A loop that ends only at a loaded model.
poll_ends_when_loaded(latest, n) == is_loaded(latest)

\* The polling loop ends after the poll that returned latest, the n-th.
poll_ends(latest, n) == is_loaded(latest) \/ n >= POLL_TRIES

\* get_cached: the entry is served unless exp < time.time().
cache_live(m) == m.cache.exp >= 0 /\ ~(m.cache.exp < m.now)

\* set_cached
set_cached(m, d, ttl) == [val |-> d, exp |-> m.now + Max(1, ttl), at |-> m.now]

\* get_cached returned the entry to a caller.
served(m) ==
  [age |-> m.now - m.cache.at, prov |-> provisional(m.cache.val),
   late |-> m.cache.exp < m.now]

\* compute_budgets once _get_model_info_cached has returned info to caller c:
\* the polling loop is entered, or the budget vector is returned.
with_info(m, c, d) ==
  [m EXCEPT !.info[c] = d,
            !.pc[c] = IF is_loaded(d) THEN "done" ELSE "sleep"]

\* compute_budgets is called: the cache answers, or the lock is taken and
\* the probe sent, or the caller waits for the lock.
InfoCall(c) ==
  /\ mi.pc[c] = "idle"
  /\ mi' = IF cache_live(mi)
           THEN with_info([mi EXCEPT !.hit = served(mi)], c, mi.cache.val)
           ELSE IF mi.lock = 0
           THEN [mi EXCEPT !.cache.exp = -1, !.lock = c, !.pc[c] = "fetch"]
           ELSE [mi EXCEPT !.cache.exp = -1, !.pc[c] = "lock"]
  /\ UNCHANGED mi_frame

\* The lock is free: the waiting caller takes it and looks at the cache again.
InfoLockAcquired(c) ==
  /\ mi.pc[c] = "lock"
  /\ mi.lock = 0
  /\ mi' = IF cache_live(mi)
           THEN with_info([mi EXCEPT !.hit = served(mi)], c, mi.cache.val)
           ELSE [mi EXCEPT !.cache.exp = -1, !.lock = c, !.pc[c] = "fetch"]
  /\ UNCHANGED mi_frame

\* The probe made inside the lock returns: the record is cached, the lock
\* released.
InfoFetchReturn(c) ==
  /\ mi.pc[c] = "fetch"
  /\ \E d \in fetch_model_info(mi.up) :
       mi' = with_info([mi EXCEPT !.cache = set_cached(mi, d, ttl_of(d)),
                                  !.lock = 0], c, d)
  /\ UNCHANGED mi_frame

\* asyncio.sleep(0.6) returns: the caller probes the upstream.
InfoSleepDone(c) ==
  /\ mi.pc[c] = "sleep"
  /\ mi' = [mi EXCEPT !.pc[c] = "poll"]
  /\ UNCHANGED mi_frame

\* A probe of the polling loop returns.
InfoPollReturn(c) ==
  /\ mi.pc[c] = "poll"
  /\ \E latest \in fetch_model_info(mi.up) :
       LET n == mi.polls[c] + 1
           m1 == [mi EXCEPT !.polls[c] = n]
           m2 == IF is_loaded(latest)
                 THEN [m1 EXCEPT !.info[c] = latest,
                                 !.cache = set_cached(mi, latest, ctx_model_info_ttl_sec)]
                 ELSE m1
       IN mi' = [m2 EXCEPT !.pc[c] = IF poll_ends(latest, n) THEN "done" ELSE "sleep"]
  /\ UNCHANGED mi_frame

\* The model gets loaded at the upstream.
ModelLoads ==
  /\ mi.up = "not-loaded"
  /\ mi' = [mi EXCEPT !.up = "loaded"]
  /\ UNCHANGED mi_frame

\* Time passes.
InfoTick ==
  /\ mi.ticks < MaxInfoTicks
  /\ \E dt \in TickSteps : mi' = [mi EXCEPT !.now = mi.now + dt, !.ticks = mi.ticks + 1]
  /\ UNCHANGED mi_frame

\* The steps of the callers: every await of theirs returns (the probe has a
\* timeout of 5 seconds, the lock is released by its holder).
InfoProgress ==
  \E c \in Callers :
    InfoLockAcquired(c) \/ InfoFetchReturn(c) \/ InfoSleepDone(c) \/ InfoPollReturn(c)

NextInfo ==
  \/ \E c \in Callers :
       \/ InfoCall(c)
       \/ InfoLockAcquired(c)
       \/ InfoFetchReturn(c)
       \/ InfoSleepDone(c)
       \/ InfoPollReturn(c)
  \/ ModelLoads
  \/ InfoTick

SpecInfo == Init /\ [][NextInfo]_vars /\ WF_vars(InfoProgress)


(***************************************************************************)
(* Properties.                                                             *)
(***************************************************************************)
\* A request whose prompt is assembled and whose output budget is clamped:
\* it waits for the upstream generation.
Clamped(r) == pc[r] = "gen"

\* What the window still holds after the prompt and the reserves.
room(l) == l.bud.C_eff - l.prompt - l.bud.R_sys - l.bud.Safety

window_sum(l) == l.prompt + l.bud.R_sys + l.bud.Safety + l.eff

L3CoversStoredL2 ==
  \E i \in 1..Len(l3rows), j \in 1..Len(l2rows) :
    l3rows[i].s2 <= l2rows[j].id /\ l2rows[j].id <= l3rows[i].e2

\* C2 as stated: in every reachable store state, no L3 row coexists with an
\* L2 row whose id lies in its range, on every path that writes an L3.
C2_L3Atomicity == ~L3CoversStoredL2

\* C2, the failing state on the memory promotion path: promote_l2_to_l3 has
\* committed an L3 row over L2 rows that it leaves in place.
C2_PromotedL3KeepsL2 ==
  \E r \in Req :
    /\ pc[r] = "mem_l3"
    /\ l3rows # <<>>
    /\ l3rows[Len(l3rows)].id = nextL3 - 1
    /\ \E j \in 1..Len(l2rows) : l2rows[j].id = l3rows[Len(l3rows)].e2


\* Two stored L2 rows have the same (start_message_id, end_message_id).
DuplicateL2 ==
  \E i, j \in 1..Len(l2rows) :
    i < j /\ l2rows[i].s = l2rows[j].s /\ l2rows[i].e = l2rows[j].e

\* C3 as stated: at most one L2 row exists per (start_message_id,
\* end_message_id); an insert for a key that has a row changes nothing.
C3_L2Unique == ~DuplicateL2

\* C3, the failing state: no request in flight, and two L2 rows over the
\* same pair of real message ids.
C3_SamePairTwice ==
  /\ \A r \in Req : pc[r] = "idle"
  /\ \E i, j \in 1..Len(l2rows) :
       i < j /\ l2rows[i].s = l2rows[j].s /\ l2rows[i].e = l2rows[j].e /\ l2rows[i].s > 0


\* C4 as stated: every stored L3 row has a text that passes the
\* meaningfulness check, whatever the summarizer returns and whichever path
\* writes it.
C4_StoredL3Meaningful ==
  \A i \in 1..Len(l3rows) : is_meaningful(l3rows[i].txt)

\* C4, the failing state: the preflight compactor has just committed an L3
\* row with an empty text.
C4_PreflightStoresEmptyL3 ==
  \E r \in Req :
    /\ pc[r] = "pf_l3_del"
    /\ loc[r].sum = T_EMPTY
    /\ l3rows # <<>>
    /\ l3rows[Len(l3rows)].txt = T_EMPTY


\* The task r ends its wait for the L2 -> L3 summary of the block it picked,
\* in the preflight compactor or in the normalizer, with a text that is not
\* meaningful (or with an exception of the summarizer).
L3StepNotMeaningful(r) ==
  /\ pc[r] \in {"pf_l3_await", "nz_l3_await"}
  /\ pc'[r] # pc[r]
  /\ ~is_meaningful(loc'[r].sum)

\* C5 as stated: in both compactors, when the L2 -> L3 summary of the picked
\* block is not meaningful after retries (or the summarizer fails), that
\* step leaves the L2 rows unchanged and inserts no L3 row.
C5_NotMeaningfulSkips ==
  [][\A r \in Req : L3StepNotMeaningful(r) => l2rows' = l2rows /\ l3rows' = l3rows]_vars

\* C5, the failing state: the preflight compactor is past insert_l3_summary
\* with a summary that is not meaningful, about to delete the block.
C5_PreflightInsertsAnyway ==
  \E r \in Req :
    /\ pc[r] = "pf_l3_del"
    /\ ~is_meaningful(loc[r].sum)
    /\ l3rows # <<>>
    /\ l3rows[Len(l3rows)].txt = loc[r].sum
    /\ l3rows[Len(l3rows)].s2 \in RowIds(loc[r].blk)


\* compact_to_budget has returned to the task r: its breakdown, blocks and
\* caps are those of loc[r], the reason of the return is loc[r].exit.
Compacted(r) == pc[r] = "gen"

\* The three cap clauses on what compact_to_budget returns.
l1_within(l) == l.bd.l1 <= l.caps.l1 \/ Len(l.l1) = 2 * L1_MIN_PAIRS
l2_within(l) == l.bd.l2 <= l.caps.l2
l3_within(l) == l.bd.l3 <= l.caps.l3 \/ l.l3 = <<>>

\* C6 as stated: when compact_to_budget returns, l1 <= L1_cap or the slice
\* holds exactly L1_MIN_PAIRS pairs; l2 <= L2_cap (the preflight compactor
\* never skips an L2 -> L3 step); l3 <= L3_cap unless no L3 row is left.
C6_CapsAfterCompaction ==
  \A r \in Req : Compacted(r) =>
    l1_within(loc[r]) /\ l2_within(loc[r]) /\ l3_within(loc[r])

\* C6, amended: the same, for every return of compact_to_budget other than
\* the one forced by its cap of PF_GUARD iterations.
C6_CapsUnlessIterationCap ==
  \A r \in Req : (Compacted(r) /\ loc[r].exit # "guard") =>
    l1_within(loc[r]) /\ l2_within(loc[r]) /\ l3_within(loc[r])

\* C6, the case: compact_to_budget returned by its exit condition after it
\* compacted L1 and evicted L3 rows, and some L3 rows are left.
C6_CompactedWithinCaps ==
  \E r \in Req :
    /\ Compacted(r)
    /\ loc[r].exit = "ok"
    /\ \E i, j \in 1..Len(loc[r].steps) :
         loc[r].steps[i] = "l3_evict" /\ loc[r].steps[j] = "l1_to_l2_group"
    /\ loc[r].l3 # <<>>
    /\ loc[r].bd.l3 > 0


\* Every layer of what compact_to_budget returned is at or below its LOW
\* watermark.
all_low(l) ==
  /\ pf_pct(l.bd.l1, l.caps.l1) <= L1_LOW
  /\ pf_pct(l.bd.l2, l.caps.l2) <= L2_LOW
  /\ pf_pct(l.bd.l3, l.caps.l3) <= L3_LOW

\* C7 as stated: after the preflight compactor exits, every layer is at or
\* below its LOW watermark, or the last iteration made no progress (the
\* loop left because no step was done).
C7_WatermarkTermination ==
  \A r \in Req : Compacted(r) => all_low(loc[r]) \/ loc[r].exit = "stall"

\* C7, the failing state: the compactor left by its exit condition, which
\* tests the HIGH watermarks, after it did a step, with a layer above LOW.
C7_ExitAboveLow ==
  \E r \in Req :
    /\ Compacted(r)
    /\ loc[r].exit = "ok"
    /\ loc[r].steps # <<>>
    /\ ~all_low(loc[r])


\* normalize_after_reply has returned to the task r: loc[r].l1 is its l1_tail.
Normalized(r) == pc[r] = "mem"

\* The pairs the L1 slice of a task must keep: L1_MIN_PAIRS of them, or all
\* the pairs of the history when it has fewer.
l1_floor(l) == Min(L1_MIN_PAIRS, l.npairs)

\* C8 as stated: the L1 slice assemble_context returns and the L1 tail
\* normalize_after_reply leaves hold at least min(L1_MIN_PAIRS, pairs of the
\* history) pairs.
C8_L1MinPairs ==
  \A r \in Req :
    (Compacted(r) \/ Normalized(r)) => Len(loc[r].l1) \div 2 >= l1_floor(loc[r])

\* C8, the failing state: the preflight compactor took pairs out of an L1
\* slice that held no more than L1_MIN_PAIRS pairs.
C8_PreflightCutsBelowMin ==
  \E r \in Req :
    /\ Compacted(r)
    /\ \E i \in 1..Len(loc[r].steps) : loc[r].steps[i] = "l1_to_l2_group"
    /\ Len(loc[r].l1) \div 2 < l1_floor(loc[r])


\* The L1 slice of a task is in strictly ascending order of message id.
l1_ascending(l1) == \A i \in 1..(Len(l1) - 1) : l1[i].id < l1[i + 1].id

\* It alternates user, assistant, starting with a user message.
l1_alternates(l1) ==
  \A i \in 1..Len(l1) : l1[i].role = (IF i % 2 = 1 THEN "user" ELSE "assistant")

\* The assistant messages of the thread before the message with id cur.
assistants_before(cur) ==
  {i \in 1..Len(msgs) : i < cur /\ msgs[i].role = "assistant"}

\* The last message of the slice is the latest assistant message before the
\* current user message, when there is one.
l1_ends_with_latest(l) ==
  assistants_before(l.cur) # {} =>
    /\ l.l1 # <<>>
    /\ l.l1[Len(l.l1)].id = MaxOf(assistants_before(l.cur))

\* C9 as stated: the L1 slice of the assembled prompt is strictly ascending,
\* alternates user/assistant, and its last assistant message is the latest
\* assistant message of the thread before the current user message.
C9_L1Ordering ==
  \A r \in Req : Compacted(r) =>
    /\ l1_ascending(loc[r].l1)
    /\ l1_alternates(loc[r].l1)
    /\ l1_ends_with_latest(loc[r])

\* C9, the failing state: the slice is not empty, it is ordered and
\* alternates, and a later assistant message of the thread is not in it
\* (the compactor takes the oldest pairs, never the last one alone).
C9_LatestReplyLeftOut ==
  \E r \in Req :
    /\ Compacted(r)
    /\ loc[r].l1 # <<>>
    /\ l1_ascending(loc[r].l1) /\ l1_alternates(loc[r].l1)
    /\ loc[r].l1[Len(loc[r].l1)].id < MaxOf(assistants_before(loc[r].cur))

\* Two L3 rows cover a common L2 id: an L2 row was summarized twice.
L2InTwoL3 ==
  \E i, j \in 1..Len(l3rows) :
    /\ i < j
    /\ l3rows[i].s2 <= l3rows[j].e2
    /\ l3rows[j].s2 <= l3rows[i].e2

\* C10 as stated: whatever the interleaving of two requests on the thread,
\* the store never holds two L2 rows with the same (start, end) and no L2
\* row is summarized into more than one L3 row.
C10_ConcurrentRequestsKeepStore == ~DuplicateL2 /\ ~L2InTwoL3

\* C10, the failing state: the normalizer of one request and the preflight
\* compactor of the other awaited the L2 summary of the same pairs, and each
\* stored its row: the last two L2 rows have the same (start, end).
C10_SamePairsSummarizedTwice ==
  \E q, r \in Req :
    /\ q # r
    /\ pc[q] = "nz_loop"
    /\ loc[q].nsteps # <<>>
    /\ loc[q].nsteps[Len(loc[q].nsteps)] = "l1_to_l2_group"
    /\ pc[r] \notin {"idle", "budget"}
    /\ \E i \in 1..Len(loc[r].steps) : loc[r].steps[i] = "l1_to_l2_group"
    /\ Len(l2rows) >= 2
    /\ l2rows[Len(l2rows)].s > 0
    /\ l2rows[Len(l2rows) - 1].s = l2rows[Len(l2rows)].s
    /\ l2rows[Len(l2rows) - 1].e = l2rows[Len(l2rows)].e


\* The streaming response was cancelled, by cancel_response or by the
\* disconnection of the client, after at least one delta was received.
CancelledAfterDelta == stream.flag /\ stream.at_cancel >= 1

\* The partial text is saved as the last message of the thread, the response
\* is recorded as cancelled, and normalize_after_reply has run.
PartialPersisted ==
  /\ msgs # <<>>
  /\ msgs[Len(msgs)].role = "assistant"
  /\ stream.status = "cancelled"
  /\ stream.normalized

HistoryPairs(l) ==
  LET flat == build_pairs_asc(get_thread_messages_for_l1(msgs, l.cur))
  IN {<<flat[2 * k - 1].id, flat[2 * k].id>> : k \in 1..(Len(flat) \div 2)}

InL1(l, p) == \E i \in 1..Len(l.l1) : l.l1[i].id = p[1]

\* A pair is covered when a stored L2 row spans it.  Rows whose message ids
\* are the placeholder of promote_l1_to_l2 and any stored L3 row are counted
\* as covering every pair: what they were made of cannot be read from them.
Covered(p) ==
  \/ \E i \in 1..Len(l2rows) :
        \/ l2rows[i].s <= p[1] /\ p[2] <= l2rows[i].e
        \/ l2rows[i].s = 0
  \/ l3rows # <<>>

\* The request has done everything that writes a summary: update_memory
\* stands before its last step, the trim of L3.
Served(r) == pc[r] = "mem_l3"

\* C12 as stated: once a request is served, every pair of the history that
\* is not in its L1 slice is covered by a stored L2 (or L3) summary, and so
\* L2 holds a row when such a pair exists.
C12_LeftOutPairsSummarized ==
  \A r \in Req :
    Served(r) =>
      \A p \in HistoryPairs(loc[r]) : ~InL1(loc[r], p) => Covered(p)

\* C12, the failing state: a request is served, the oldest pair of the
\* history is outside L1, and no stored row covers it.
C12_OldPairTrimmed ==
  \E r \in Req :
    /\ Served(r)
    /\ <<1, 2>> \in HistoryPairs(loc[r])
    /\ ~InL1(loc[r], <<1, 2>>)
    /\ ~Covered(<<1, 2>>)
    /\ l3rows = <<>>


(***************************************************************************)
(* C13                                                                     *)
(***************************************************************************)
Reported == tok.pos = 7

AnyApprox == \E i \in 1..Len(tok.modes) : tok.modes[i] = "approx"

\* C13 as stated: the token_count_mode a response reports is "approx" when
\* a cumulative count of its breakdown returned "approx", and the mode of the
\* upstream otherwise.
C13_ApproxTagged ==
  Reported => tok.reported = (IF AnyApprox THEN "approx" ELSE "proxy-http")

\* C13, the failing state: the count of the system block fell back to the
\* approximation, the breakdown is tagged "approx", and the response reports
\* "proxy-http".
C13_ApproxOverwritten ==
  /\ Reported
  /\ tok.modes[1] = "approx"
  /\ tok.bd_mode = "approx"
  /\ tok.reported = "proxy-http"

(***************************************************************************)
(* C14                                                                     *)
(***************************************************************************)
\* C14: every call of count_tokens_chat returns; when the upstream failed
\* (timeout, transport error, status other than 200, prompt_tokens missing
\* or not positive) it returns the approximation with mode "approx"; it
\* returns "proxy-http" only with a count read from a successful answer,
\* now or when the entry of the cache was made.
C14_FallbackOnAnyFailure ==
  /\ tok.last.out # "none" => tok.last.mode \in {"approx", "proxy-http"}
  /\ tok.last.out \in Failures =>
        /\ tok.last.mode = "approx"
        /\ tok.last.n = approx_tokens_messages(tok.last.lens)
  /\ tok.last.mode = "proxy-http" =>
        /\ tok.last.out \in {"ok", "hit"}
        /\ tok.last.n = UpstreamTokens(tok.last.lens)
  /\ \A x \in tok.cache : x.mode = "proxy-http" => x.n = UpstreamTokens(x.k)

\* C14, its case: the upstream answered 200 with a prompt_tokens that is not
\* positive for a list counted with success before, whose entry had expired.
C14_ZeroUsageFallsBack ==
  /\ tok.last.out = "zero"
  /\ tok.last.mode = "approx"
  /\ tok.runs = MaxBreakdowns
  /\ tok.now >= TOKEN_CACHE_SEC
  /\ \E x \in tok.cache : x.mode = "proxy-http"


(***************************************************************************)
(* C15                                                                     *)
(***************************************************************************)
TwoBudgets == bq.n = 2

C_base_of(q) ==
  IF q.loaded > 0 THEN q.loaded ELSE IF q.mx > 0 THEN q.mx
  ELSE ctx_default_context_length

\* x is the floor, or the ceiling, of pct percent of c.
IsFloorPct(x, pct, c) == 100 * x <= pct * c /\ pct * c < 100 * (x + 1)
IsCeilPct(x, pct, c) == 100 * (x - 1) < pct * c /\ pct * c <= 100 * x

\* C16: the budget vector is the one of the formulas: C_base is the loaded
\* length, else the max length, else the default; R_out is the smaller of the
\* request (or CTX_ROUT_DEFAULT) and floor(CTX_ROUT_PCT C_base); R_sys the
\* larger of CTX_RSYS_MIN and floor(CTX_RSYS_PCT C_base); Safety is
\* ceil(CTX_SAFETY_PCT C_base); B_total_in, core_reserved and B_work follow;
\* loaded 2048, max 32768, request 128 give 128, 256, 205 and 1459.
C16_BudgetFormulas ==
  bq.n >= 1 =>
    LET b == bq.b1
        c == C_base_of(bq)
        asked == IF bq.m1 = 0 THEN ctx_rout_default ELSE bq.m1
    IN /\ b.C_eff = c
       /\ \E f \in 0..c : /\ IsFloorPct(f, ctx_rout_pct, c)
                          /\ b.R_out = (IF asked <= f THEN asked ELSE f)
       /\ \E f \in 0..c : /\ IsFloorPct(f, ctx_rsys_pct, c)
                          /\ b.R_sys = (IF ctx_rsys_min >= f THEN ctx_rsys_min ELSE f)
       /\ IsCeilPct(b.Safety, ctx_safety_pct, c)
       /\ b.B_total_in = c - b.R_out - b.R_sys - b.Safety
       /\ b.core_reserved =
            (IF b.B_total_in <= 0 THEN 0
             ELSE IF bq.core_cap + ctx_core_sys_pad_tok <= b.B_total_in
                  THEN bq.core_cap + ctx_core_sys_pad_tok ELSE b.B_total_in)
       /\ b.B_work = (IF b.B_total_in - b.core_reserved >= 0
                      THEN b.B_total_in - b.core_reserved ELSE 0)
       /\ (bq.loaded = 2048 /\ bq.mx = 32768 /\ bq.m1 = 128) =>
            /\ b.R_out = 128 /\ b.R_sys = 256
            /\ b.Safety = 205 /\ b.B_total_in = 1459

\* C16, its case: the budgets of loaded 2048, max 32768 and a request of 128.
C16_ExampleComputed ==
  /\ bq.n = 1
  /\ bq.loaded = 2048 /\ bq.mx = 32768 /\ bq.m1 = 128
  /\ bq.b1.C_eff = 2048
  /\ bq.b1.B_total_in = 1459

(***************************************************************************)
(* C17                                                                     *)
(***************************************************************************)
\* C17 as stated: no reservation is above the window.
C17_ReservationsWithinWindow ==
  bq.n >= 1 =>
    /\ bq.b1.R_out <= bq.b1.C_eff
    /\ bq.b1.R_sys <= bq.b1.C_eff
    /\ bq.b1.Safety <= bq.b1.C_eff

\* C17 amended: R_out and Safety are never above the window; R_sys is not
\* above it when the window is CTX_RSYS_MIN or more, and is CTX_RSYS_MIN
\* otherwise.
C17_ReservationsAboveRsysMin ==
  bq.n >= 1 =>
    /\ bq.b1.R_out <= bq.b1.C_eff
    /\ bq.b1.Safety <= bq.b1.C_eff
    /\ bq.b1.C_eff >= ctx_rsys_min => bq.b1.R_sys <= bq.b1.C_eff
    /\ bq.b1.C_eff < ctx_rsys_min => bq.b1.R_sys = ctx_rsys_min

\* C17, its case: a window below CTX_RSYS_MIN and a request above the
\* window.
C17_SmallWindow ==
  /\ bq.n = 1
  /\ bq.b1.C_eff = 128
  /\ bq.m1 = 10000
  /\ bq.b1.R_out = 32
  /\ bq.b1.R_sys = 256
  /\ bq.b1.B_work = 0


(***************************************************************************)
(* C18                                                                     *)
(***************************************************************************)
\* The callers whose probe of the upstream is in flight.
InFlight == {c \in Callers : mi.pc[c] \in {"fetch", "poll"}}

\* C18 as stated: at most one probe of the model info of a key is in flight.
C18_OneProbeInFlight == Cardinality(InFlight) <= 1

\* C18, the failing state: a caller probes inside the lock while another
\* probes from its polling loop.
C18_PollBesideLockedProbe ==
  /\ mi.lock # 0
  /\ mi.pc[mi.lock] = "fetch"
  /\ \E c \in Callers : mi.pc[c] = "poll"


(***************************************************************************)
(* C19                                                                     *)
(***************************************************************************)
\* The longest a record may be served after it was stored, by the claim.
MaxAge(prov) == IF prov THEN PROVISIONAL_TTL ELSE ctx_model_info_ttl_sec

\* C19: an entry get_cached returns is not expired, is no older than 2
\* seconds when its record is provisional (source "default", state other
\* than "loaded", or no loaded_context_length) and no older than
\* CTX_MODEL_INFO_TTL_SEC otherwise; the same holds of the entry the cache
\* would serve now.
C19_CacheAges ==
  /\ mi.hit.age >= 0 => ~mi.hit.late /\ mi.hit.age <= MaxAge(mi.hit.prov)
  /\ cache_live(mi) => mi.now - mi.cache.at <= MaxAge(provisional(mi.cache.val))

\* C19, its case: a provisional record was served 2 seconds after it was
\* stored, and the clock has since passed its expiry.
C19_ProvisionalServedAtTwo ==
  /\ mi.hit.prov
  /\ mi.hit.age = PROVISIONAL_TTL
  /\ provisional(mi.cache.val)
  /\ mi.now - mi.cache.at > PROVISIONAL_TTL
  /\ ~cache_live(mi)

(***************************************************************************)
(* C20                                                                     *)
(***************************************************************************)
Polling(c) == mi.pc[c] \in {"sleep", "poll"}

Returned(c) == mi.pc[c] = "done"

\* C20: a caller polls 10 times at most; a caller in the polling loop goes
\* on only while no poll has reported a loaded model; it returns in the end,
\* with a budget vector on the max or the default window when no loaded
\* length ever appeared.
C20_PollingEnds ==
  /\ [](\A c \in Callers :
          /\ mi.polls[c] <= POLL_TRIES
          /\ Polling(c) => ~is_loaded(mi.info[c])
          /\ (Returned(c) /\ ~is_loaded(mi.info[c])) =>
               /\ mi.polls[c] = POLL_TRIES
               /\ compute_budgets(mi.info[c].loaded, mi.info[c].mx, 0, 0).C_eff
                    \in {mi.info[c].mx, ctx_default_context_length})
  /\ \A c \in Callers : Polling(c) ~> Returned(c)

\* C20, its case: a caller has returned after 10 polls that never reported a
\* loaded model, while the other returned at its first poll that did.
C20_GaveUpAfterTen ==
  \E c, d \in Callers :
    /\ Returned(c) /\ mi.polls[c] = POLL_TRIES /\ ~is_loaded(mi.info[c])
    /\ Returned(d) /\ mi.polls[d] \in 1..(POLL_TRIES - 1) /\ is_loaded(mi.info[d])

(***************************************************************************)
(* C21                                                                     *)
(***************************************************************************)
\* The calls of the summarizer a request is waiting on: the L2 texts handed
\* to summarize_l2_block_to_l3, the chunk handed to
\* summarize_pairs_group_to_l2.
AwaitsL3Summary(r) == pc[r] \in {"pf_l3_await", "nz_l3_await"}

AwaitsL2Summary(r) == pc[r] = "pf_l2_await"

\* C21: whatever the upstream does, a summarizer entry point that has been
\* called returns a text to its caller, never an exception.
C21_SummarizerNeverRaises ==
  \A r \in Req :
    /\ AwaitsL3Summary(r) =>
         \A outs \in L3Answers :
           summarize_l2_block_to_l3(RowTexts(loc[r].blk), outs) # RAISE
    /\ AwaitsL2Summary(r) =>
         \A out \in LlmOuts :
           summarize_pairs_group_to_l2(Take(loc[r].l1, 2 * loc[r].K), out) # RAISE

\* C21, its case: compact_to_budget waits for summarize_l2_block_to_l3 on a
\* block of non-empty L2 texts, and the first upstream call raises: the
\* exception reaches compact_to_budget, whose own handler builds the bullets.
C21_UpstreamErrorReachesCaller ==
  \E r \in Req :
    /\ pc[r] = "pf_l3_await"
    /\ \E outs \in L3Answers :
         /\ outs[1] = RAISE
         /\ summarize_l2_block_to_l3(RowTexts(loc[r].blk), outs) = RAISE
         /\ pf_l3_text(loc[r].blk, outs) = BlockBullets(RowTexts(loc[r].blk), 2, 160)

(***************************************************************************)
(* C22                                                                     *)
(***************************************************************************)
\* provider_messages of assemble_context, by kind and id: system, L3, L2,
\* L1, then the current user message when its text is not empty.
provider_messages(l) ==
  [i \in 1..Len(SysBlock) |-> [kind |-> "system", id |-> 0]]
  \o [i \in 1..Len(l.l3) |-> [kind |-> "l3", id |-> l.l3[i].id]]
  \o [i \in 1..Len(l.l2) |-> [kind |-> "l2", id |-> l.l2[i].id]]
  \o [i \in 1..Len(l.l1) |-> [kind |-> "msg", id |-> l.l1[i].id]]
  \o [i \in 1..Len(UserBlock(l.ulen)) |-> [kind |-> "msg", id |-> l.cur]]

\* The request has assembled its context and has not yet saved a reply.
Assembled(r) ==
  pc[r] \in {"pf_loop", "pf_l3_await", "pf_l3_del", "pf_l2_await", "gen"}

\* The places of the current user message in the provider message list.
CurrentAt(l) ==
  {i \in 1..Len(provider_messages(l)) :
     provider_messages(l)[i] = [kind |-> "msg", id |-> l.cur]}

\* Every L1 message was saved before the current user message.
L1BeforeCurrent(l) == \A i \in 1..Len(l.l1) : l.l1[i].id < l.cur

\* C22 as stated: L1 holds only messages older than the current user
\* message, which is in the provider message list once, as its last element.
C22_CurrentUserOnceAndLast ==
  \A r \in Req :
    Assembled(r) =>
      /\ L1BeforeCurrent(loc[r])
      /\ CurrentAt(loc[r]) = {Len(provider_messages(loc[r]))}

\* C22, amended: the same for a non-empty input; an empty input is saved but
\* is not in the provider message list at all.
C22_CurrentUserOnceAndLastIfNonEmpty ==
  \A r \in Req :
    Assembled(r) =>
      /\ L1BeforeCurrent(loc[r])
      /\ CurrentAt(loc[r]) =
           IF loc[r].ulen > 0 THEN {Len(provider_messages(loc[r]))} ELSE {}

\* C22, its case: a request with an empty input has saved its user message
\* and assembled an L1 of older pairs; the provider message list ends with
\* the assistant message of the last of them.
C22_EmptyInputAbsent ==
  \E r \in Req :
    /\ Assembled(r)
    /\ loc[r].ulen = 0
    /\ msgs[loc[r].cur].role = "user"
    /\ loc[r].l1 # <<>>
    /\ CurrentAt(loc[r]) = {}
    /\ LET pm == provider_messages(loc[r])
       IN pm[Len(pm)] = [kind |-> "msg", id |-> loc[r].l1[Len(loc[r].l1)].id]

(***************************************************************************)
(* C23                                                                     *)
(***************************************************************************)
\* context_assembly.compaction_steps of the response: the steps of
\* compact_to_budget put in stats by assemble_context, to which
\* normalize_after_reply adds its own steps through meta, and to which
\* create_response adds the steps of the normalizer's result.
compaction_steps(l) == (l.steps \o l.nsteps) \o l.nsteps

\* normalize_after_reply has returned to create_response.
Replied(r) == pc[r] \in {"mem", "mem_l2", "mem_l3"}

\* The tags of the steps a request performed, in the order it performed
\* them: those of the preflight loop, then those of the normalizer.
PerformedSteps(l) == l.steps \o l.nsteps

\* C23: the diagnostic list of a request names every compaction step it
\* performed once, in the order of the steps.
C23_StepsListedOnceInOrder ==
  \A r \in Req : Replied(r) => compaction_steps(loc[r]) = PerformedSteps(loc[r])

\* C23, its case: a request that compacted before the call and after the
\* reply reports each step of the normalizer twice.
C23_PostReplyStepsListedTwice ==
  \E r \in Req :
    /\ Replied(r)
    /\ loc[r].steps # <<>>
    /\ loc[r].nsteps # <<>>
    /\ Len(compaction_steps(loc[r])) = Len(loc[r].steps) + 2 * Len(loc[r].nsteps)
    /\ compaction_steps(loc[r]) # PerformedSteps(loc[r])

(***************************************************************************)
(* C24                                                                     *)
(***************************************************************************)
\* The positions of a request inside normalize_after_reply.
NzPcs == {"nz_loop", "nz_l2_await", "nz_l3_await", "nz_l3_del"}

\* The user message of the request is in the store.
UserPersisted(r) ==
  /\ loc[r].cur \in 1..Len(msgs)
  /\ msgs[loc[r].cur].role = "user"

\* C24: assemble_context is invoked with the user message of the request
\* already saved; normalize_after_reply is invoked only by the step that
\* saves the assistant message, as the last message of the thread after the
\* user message; a request whose upstream call failed saves nothing and does
\* not reach the normalizer.
C24_PersistBeforeInvoke ==
  [][\A r \in Req :
       /\ (pc[r] = "budget" /\ pc'[r] # "budget") => UserPersisted(r)
       /\ (pc[r] \notin NzPcs /\ pc'[r] \in NzPcs) =>
            /\ pc[r] = "gen"
            /\ UserPersisted(r)
            /\ Len(msgs') = Len(msgs) + 1
            /\ msgs'[Len(msgs')].role = "assistant"
            /\ loc[r].cur < Len(msgs')
       /\ (pc[r] = "gen" /\ msgs' = msgs) => pc'[r] \notin NzPcs]_vars

\* C24, its case: a request is inside the normalizer, its user message and
\* after it an assistant message are saved, while the other request has
\* saved its user message and is still assembling.
C24_NormalizingAfterBothSaved ==
  \E r, q \in Req :
    /\ pc[r] \in NzPcs
    /\ UserPersisted(r)
    /\ \E i \in (loc[r].cur + 1)..Len(msgs) : msgs[i].role = "assistant"
    /\ pc[q] = "budget"
    /\ UserPersisted(q)

(***************************************************************************)
(* C25                                                                     *)
(***************************************************************************)
\* The values the column last_compacted_message_id of a thread can hold.
LastIds(ms) == {0, UnknownId} \cup {ms[i].id : i \in 1..Len(ms)}

JustAssembled(r) == pc[r] = "pf_loop" /\ loc[r].guard = 0

CapsSum(c) == c.l1 + c.l2 + c.l3

\* C27: for a working budget that is not negative and any tool tokens, the
\* caps of compute_level_caps add up to B_work at most, and so do the caps
\* of assemble_context together with the tool tokens it counts as used.
C27_CapsWithinBudget ==
  (bq.capped /\ bq.b1.B_work >= 0) =>
     /\ CapsSum(bq.mcaps) <= bq.b1.B_work
     /\ CapsSum(bq.caps) + bq.used <= bq.b1.B_work
     /\ bq.used >= 0

\* C27, its case: tool results larger than their share of a positive budget
\* are counted at the share; the caps of assemble_context and the used
\* tokens then miss B_work by less than 3, and the L1 cap of
\* compute_level_caps is cut by the tools share.
C27_ToolsAtTheirShare ==
  /\ bq.capped
  /\ bq.b1.B_work > 100
  /\ bq.tools > bq.used
  /\ bq.used = (mem_tools_max_share * bq.b1.B_work) \div 100
  /\ CapsSum(bq.caps) + bq.used > bq.b1.B_work - 3
  /\ bq.mcaps.l1 < (mem_l1_share * bq.b1.B_work) \div 100

(***************************************************************************)
(* C28                                                                     *)
(***************************************************************************)
\* The ids of the user and assistant messages of ms at the positions ps.
ChatIdsAt(ms, ps) ==
  {ms[i].id : i \in {j \in ps : ms[j].role \in {"user", "assistant"}}}

\* The ids of a list of messages.
IdsOf(out) == {out[i].id : i \in 1..Len(out)}

\* A list of messages in the order of their creation, none twice.
Ascending(out) == \A i, j \in 1..Len(out) : i < j => out[i].id < out[j].id

\* C28: for the messages of the thread and any last_id, get_messages_since
\* returns user and assistant messages only, in creation order; they are
\* those saved after the message last_id when the thread has it, and all of
\* the thread when last_id is None or unknown.
C28_MessagesSince ==
  \A last_id \in LastIds(msgs) :
    LET out == get_messages_since(msgs, last_id)
        at == {i \in 1..Len(msgs) : msgs[i].id = last_id}
    IN /\ Ascending(out)
       /\ \A i \in 1..Len(out) : out[i].role \in {"user", "assistant"}
       /\ IdsOf(out) =
            IF last_id = 0 \/ at = {}
            THEN ChatIdsAt(msgs, 1..Len(msgs))
            ELSE ChatIdsAt(msgs, {i \in 1..Len(msgs) : \A k \in at : i > k})

\* C28, its case: a thread of two exchanges at the time update_memory reads
\* it; the messages since the first reply are the second exchange, those
\* since an unknown id or None are all four, those since the latest none.
C28_SecondExchangeSince ==
  \E r \in Req :
    /\ pc[r] = "mem"
    /\ Len(msgs) = 4
    /\ IdsOf(get_messages_since(msgs, msgs[2].id)) = {msgs[3].id, msgs[4].id}
    /\ Len(get_messages_since(msgs, UnknownId)) = 4
    /\ Len(get_messages_since(msgs, last_compacted_message_id)) = 4
    /\ get_messages_since(msgs, msgs[4].id) = <<>>

(***************************************************************************)
(* C29                                                                     *)
(***************************************************************************)
\* The conditions of the three branches of an iteration of compact_to_budget,
\* read off the breakdown, the caps and the store at its head.
RoomTight(l) == free_out_cap(l) < R_OUT_MIN

L2ToL3Due(l) ==
  /\ (100 * l.bd.l2) \div Max(1, l.caps.l2) > L2_HIGH \/ (RoomTight(l) /\ l.bd.l2 > 0)
  /\ l2rows # <<>>

L1ToL2Due(l) ==
  /\ \/ (100 * l.bd.l1) \div Max(1, l.caps.l1) > L1_HIGH
     \/ RoomTight(l) /\ Len(l.l1) >= 2 * L1_MIN_PAIRS
  /\ Len(l.l1) >= 2

\* The steps of the preflight loop a request has finished or is in.
StepsBegun(r) ==
  Len(loc[r].steps)
    + (IF pc[r] \in {"pf_l3_await", "pf_l3_del", "pf_l2_await"} THEN 1 ELSE 0)

InPreflight(r) ==
  pc[r] \in {"pf_loop", "pf_l3_await", "pf_l3_del", "pf_l2_await"}

\* C29: a request has begun no more steps than iterations; an iteration
\* begins an L1 -> L2 step only when it performs no L2 -> L3 step, evicts
\* from L3 only when it performs neither, and a step that is begun leaves
\* the tags and the L3 rows as they are until it is finished.
C29_OneStepByPriority ==
  /\ [](\A r \in Req : InPreflight(r) => StepsBegun(r) <= loc[r].guard)
  /\ [][\A r \in Req :
          pc[r] = "pf_loop" =>
            LET l == loc[r]
                began_l3 == pc'[r] = "pf_l3_await"
                began_l2 == pc'[r] = "pf_l2_await"
                evicted == loc'[r].steps = Append(l.steps, "l3_evict")
            IN /\ began_l3 => L2ToL3Due(l)
               /\ began_l2 => ~L2ToL3Due(l) /\ L1ToL2Due(l)
               /\ evicted => ~L2ToL3Due(l) /\ ~L1ToL2Due(l) /\ pc'[r] = "pf_loop"
               /\ (began_l3 \/ began_l2) => loc'[r].steps = l.steps /\ l3rows' = l3rows
               /\ loc'[r].steps # l.steps => evicted
               /\ loc'[r].guard <= l.guard + 1]_vars

\* C29, its case: a request whose preflight loop performed steps of the three
\* kinds, one in each of its iterations.
C29_ThreeKindsOfStep ==
  \E r \in Req :
    /\ pc[r] = "pf_loop"
    /\ Len(loc[r].steps) = loc[r].guard
    /\ \A k \in {"l2_to_l3_group", "l1_to_l2_group", "l3_evict"} :
         \E i \in 1..Len(loc[r].steps) : loc[r].steps[i] = k

(***************************************************************************)
(* C30                                                                     *)
(***************************************************************************)
\* The positions of a request inside the loop of compact_to_budget.
PfPcs == {"pf_loop", "pf_l3_await", "pf_l3_del", "pf_l2_await"}

\* C30: compact_to_budget runs 20 iterations at most, normalize_after_reply
\* 12; a request leaves the loop of compact_to_budget only to go on with the
\* blocks it returns, by the exit condition, by the iteration cap, or after
\* an iteration without a step.
C30_LoopEndsByExitCapOrStall ==
  /\ [](\A r \in Req :
          /\ pc[r] \in PfPcs \cup {"gen"} => loc[r].guard <= PF_GUARD
          /\ pc[r] \in NzPcs => loc[r].guard <= NZ_GUARD)
  /\ [][\A r \in Req :
          (pc[r] \in PfPcs /\ pc'[r] \notin PfPcs) =>
             /\ pc'[r] = "gen"
             /\ loc'[r].exit \in {"ok", "guard", "stall"}
             /\ loc'[r].exit = "guard" => loc'[r].guard = PF_GUARD]_vars

\* C30, its case: an iteration waits for the L3 summary of a block whose
\* first row has an empty text, the summarizer raises, and the bullets that
\* compact_to_budget builds in its handler raise IndexError.
C30_IndexErrorInIteration ==
  \E r \in Req :
    /\ pc[r] = "pf_l3_await"
    /\ loc[r].guard \in 1..PF_GUARD
    /\ RawLen(loc[r].blk[1].txt) = 0
    /\ \E outs \in L3Answers :
         /\ summarize_l2_block_to_l3(RowTexts(loc[r].blk), outs) = RAISE
         /\ pf_l3_text(loc[r].blk, outs) = CRASH

(***************************************************************************)
(* C31                                                                     *)
(***************************************************************************)
\* The fill percentage of a layer, as a whole number of percents.
FillPct(used, cap) == (100 * used) \div Max(1, cap)

\* compact_to_budget has returned by the break of its exit condition (lines
\* 77-78): not by the end of the while loop, not after an iteration that
\* performed no step.
ReturnedByExit(r) == Compacted(r) /\ loc[r].exit = "ok"

\* C31: when compact_to_budget returns before its cap of 20 iterations and
\* its last iteration was not one without a step, no layer of the breakdown
\* it returns is filled above its HIGH watermark, and
\* C_base - total - R_sys - Safety is at least R_OUT_MIN.
C31_ExitMeansInvariantsHold ==
  \A r \in Req : ReturnedByExit(r) =>
    LET l == loc[r]
    IN /\ FillPct(l.bd.l1, l.caps.l1) <= L1_HIGH
       /\ FillPct(l.bd.l2, l.caps.l2) <= L2_HIGH
       /\ FillPct(l.bd.l3, l.caps.l3) <= L3_HIGH
       /\ l.bud.C_eff - l.bd.total - l.bud.R_sys - l.bud.Safety >= R_OUT_MIN
       /\ l.foc >= R_OUT_MIN

\* C31, its case: the compactor returned by its exit condition after two
\* steps or more, leaving less than twice R_OUT_MIN of room for the output.
C31_ExitAfterMakingRoom ==
  \E r \in Req :
    /\ ReturnedByExit(r)
    /\ loc[r].guard < PF_GUARD
    /\ Len(loc[r].steps) >= 2
    /\ loc[r].foc < 2 * R_OUT_MIN

(***************************************************************************)
(* C32                                                                     *)
(***************************************************************************)
\* The task r finishes an L1 -> L2 step of compact_to_budget or of
\* normalize_after_reply in this step.
L1ToL2Done(r) ==
  /\ pc[r] \in {"pf_l2_await", "nz_l2_await"}
  /\ pc'[r] # pc[r]

\* The K of the statement for a slice of l1 messages.
StatedK(l1) == Min(L2_GROUP_SIZE, Len(l1) \div 2 - L1_MIN_PAIRS)

\* What an L1 -> L2 step that consumes the k oldest pairs of the slice does:
\* one row more in l2_summaries, from the first user message consumed to the
\* last assistant message consumed, and the slice without its 2k first
\* messages.
ConsumesOldest(r, k) ==
  LET l1 == loc[r].l1
  IN /\ k >= 1
     /\ 2 * k <= Len(l1)
     /\ Len(l2rows') = Len(l2rows) + 1
     /\ SubSeq(l2rows', 1, Len(l2rows)) = l2rows
     /\ l2rows'[Len(l2rows')].s = l1[1].id
     /\ l2rows'[Len(l2rows')].e = l1[2 * k].id
     /\ l1[1].role = "user"
     /\ l1[2 * k].role = "assistant"
     /\ loc'[r].l1 = SubSeq(l1, 2 * k + 1, Len(l1))

\* C32: every L1 -> L2 step on a slice of pair_count pairs consumes exactly
\* the K = min(L2_GROUP_SIZE, pair_count - L1_MIN_PAIRS) oldest pairs of the
\* slice: it inserts one L2 row from the first consumed user message to the
\* last consumed assistant message and removes those 2K messages from the
\* front of the slice.
C32_StepConsumesStatedK ==
  [][\A r \in Req : L1ToL2Done(r) => ConsumesOldest(r, StatedK(loc[r].l1))]_vars

\* C32, the failing state: an iteration has chosen the chunk of an L1 -> L2
\* step and awaits its summary, with a K that is not the K of the statement.
C32_StepWithAnotherK ==
  \E r \in Req :
    /\ pc[r] \in {"pf_l2_await", "nz_l2_await"}
    /\ loc[r].K >= 1
    /\ loc[r].K # StatedK(loc[r].l1)

(***************************************************************************)
(* C33                                                                     *)
(***************************************************************************)
\* An iteration that decided st performs a compaction step.
Performs(st) == st.kind \in {"l1_to_l2_group", "l2_to_l3_group", "l3_evict"}

\* Two decisions are the same step: both perform none, or both perform the
\* step of the same kind on the same K pairs or the same block of L2 rows.
SameStep(a, b) ==
  /\ Performs(a) = Performs(b)
  /\ Performs(a) => a = b

\* normalize_after_reply of the task r has loaded its snapshot and stands at
\* the head of its first iteration.
AtNormalizerStart(r) == pc[r] = "nz_loop" /\ loc[r].guard = 0

\* C33: from the snapshot normalize_after_reply starts with (L1 slice, L2 and
\* L3 rows, caps, budget), its cascade is the cascade of compact_to_budget
\* from that snapshot; in particular the first iterations of the two decide
\* the same step, of the same kind and the same K or block.
C33_NormalizerStepsAsPreflight ==
  \A r \in Req : AtNormalizerStart(r) =>
    SameStep(nz_step(loc[r], l2rows, l3rows), pf_step(loc[r], l2rows, l3rows))

\* C33, the failing state: from the snapshot of a normalizer that starts,
\* each of the two loops performs a step, and the steps are of different
\* kinds.
C33_DifferentKinds ==
  \E r \in Req :
    LET n == nz_step(loc[r], l2rows, l3rows)
        p == pf_step(loc[r], l2rows, l3rows)
    IN /\ AtNormalizerStart(r)
       /\ Performs(n)
       /\ Performs(p)
       /\ n.kind # p.kind

(***************************************************************************)
(* C34                                                                     *)
(***************************************************************************)
\* The answers one invocation may get from the upstream: those of the
\* requests above, a longer line, and a meaningful line written as a list.
WideOuts == LlmOuts \cup {Txt(60, 0, TRUE), Txt(40, 2, TRUE)}
WideAnswers == [1..(1 + L3_RETRY_ATTEMPTS) -> WideOuts]

\* The answer t is a text with 8 characters or more besides its markers, a
\* letter or a digit among them.
Meaningful(t) == t # RAISE /\ t.len >= L3_MIN_NONEMPTY_CHARS /\ t.alnum

\* The task r awaits summarize_l2_block_to_l3 on the block it picked.
AwaitsBlockSummary(r) == pc[r] \in {"pf_l3_await", "nz_l3_await"}

\* C34: an invocation of summarize_l2_block_to_l3 that returns does so with
\* the first meaningful answer in call order (the initial call, then the
\* retries), its list markers stripped, having made no call after it; it
\* comes to the local fallback only when each of the 1 + L3_RETRY_ATTEMPTS
\* calls was made and gave a text that is not meaningful; and it never makes
\* more than 1 + L3_RETRY_ATTEMPTS calls.
C34_FirstMeaningfulThenFallback ==
  \A r \in Req : AwaitsBlockSummary(r) =>
    \A outs \in WideAnswers :
      LET texts == RowTexts(loc[r].blk)
          res == summarize_l2_block_to_l3(texts, outs)
          n == l3_calls_made(texts, outs)
          first(i) == Meaningful(outs[i]) /\ \A j \in 1..(i - 1) : ~Meaningful(outs[j])
      IN /\ n <= 1 + L3_RETRY_ATTEMPTS
         /\ (res # RAISE /\ n > 0) =>
              /\ \A i \in 1..Len(outs) :
                   first(i) => /\ n = i
                               /\ res.len = outs[i].len
                               /\ res.alnum = outs[i].alnum
                               /\ res.bul = 0
              /\ (\A i \in 1..Len(outs) : ~Meaningful(outs[i])) =>
                   n = 1 + L3_RETRY_ATTEMPTS

\* C34, its case: a task awaits the summary of a block with content, and for
\* answers whose initial call gives only a marker and whose retry gives a
\* meaningful line, the retry's line is returned after two calls.
C34_RetryAnswerReturned ==
  \E r \in Req :
    /\ AwaitsBlockSummary(r)
    /\ \E i \in 1..Len(loc[r].blk) : RawLen(loc[r].blk[i].txt) > 0
    /\ \E outs \in L3Answers :
         /\ outs[1] = T_BULLET
         /\ outs[2] = T_LINE
         /\ summarize_l2_block_to_l3(RowTexts(loc[r].blk), outs) = T_LINE
         /\ l3_calls_made(RowTexts(loc[r].blk), outs) = 2

(***************************************************************************)
(* C35                                                                     *)
(***************************************************************************)
\* The stored content of the row m is the content it was appended with.
AsAppended(m) == m.think = m.sent

\* A step keeps the rows of the messages table: none is deleted, and each
\* keeps its id, its role and its text.
RowsKept ==
  /\ Len(msgs') >= Len(msgs)
  /\ \A i \in 1..Len(msgs) :
       /\ msgs'[i].id = msgs[i].id
       /\ msgs'[i].role = msgs[i].role
       /\ msgs'[i].len = msgs[i].len
       /\ msgs'[i].sent = msgs[i].sent

\* C35: assembly, preflight compaction and post-reply normalization never
\* modify or delete a persisted message: in every state the stored content of
\* every message is the content it was appended with, and no step removes a
\* row or changes its text.
C35_MessagesStayAsAppended ==
  /\ [](\A i \in 1..Len(msgs) : AsAppended(msgs[i]))
  /\ [][RowsKept]_vars

\* C35, the failing state: post-reply normalization runs on a thread whose
\* stored reply has lost the <think> block it was appended with.
C35_StoredReplyRedacted ==
  \E r \in Req : \E i \in 1..Len(msgs) :
    /\ pc[r] \in NzPcs
    /\ msgs[i].role = "assistant"
    /\ msgs[i].sent > 0
    /\ msgs[i].think = 0

(***************************************************************************)
(* C36                                                                     *)
(***************************************************************************)
\* The k-th pair of the L1 slice of l lies inside the message range of the
\* L2 row row.  A row with the placeholder ids of promote_l1_to_l2 has no
\* range to lie in.
PairInsideRow(l, k, row) ==
  /\ row.s > 0
  /\ row.s <= l.l1[2 * k - 1].id
  /\ l.l1[2 * k].id <= row.e

\* The pairs of the L1 slice of l that also lie inside an L2 row of l.
SummarizedPairsInL1(l) ==
  {k \in 1..(Len(l.l1) \div 2) : \E j \in 1..Len(l.l2) : PairInsideRow(l, k, l.l2[j])}

\* C36: no assembled prompt holds in L1 a pair that lies inside the message
\* range of an L2 summary of the same prompt: once a pair has been compacted
\* into L2, later assemblies do not put it back into L1.
C36_CompactedPairStaysOutOfL1 ==
  \A r \in Req : Compacted(r) => SummarizedPairsInL1(loc[r]) = {}

\* C36, the failing state: a request that runs alone on its thread has
\* assembled its prompt, and a pair an earlier request compacted into L2 is
\* in the L1 of the prompt together with the L2 row made of it.
C36_PairBackInL1 ==
  \E r \in Req :
    /\ Compacted(r)
    /\ \A q \in Req \ {r} : pc[q] = "idle"
    /\ loc[r].steps = <<>>
    /\ SummarizedPairsInL1(loc[r]) # {}

(***************************************************************************)
(* C37                                                                     *)
(***************************************************************************)
\* The task r holds an L1 slice: assemble_context or normalize_after_reply
\* has filled it.
HoldsSlice(r) == pc[r] \notin {"idle", "budget"}

\* The chronological pair list of the thread, flattened.
ThreadPairs == build_pairs_asc(get_thread_messages_for_l1(msgs, 0))

\* The slice l1 is made of the messages of k consecutive pairs of the pair
\* list, the last of them being the n-th pair: the newest pair of the
\* history the slice was filled from.
SuffixUpTo(l1, n) ==
  LET k == Len(l1) \div 2
  IN /\ Len(l1) = 2 * k
     /\ k <= n
     /\ 2 * n <= Len(ThreadPairs)
     /\ \A i \in 1..(2 * k) : l1[i].id = ThreadPairs[2 * (n - k) + i].id

\* C37: the pairs the fill chooses for L1, top-up included, are a contiguous
\* suffix of the chronological pair list of the history they were chosen
\* from, and the slice is still one after every compaction step; a step that
\* changes the slice removes pairs from its oldest end only.
C37_SliceIsSuffix ==
  /\ [](\A r \in Req : HoldsSlice(r) => SuffixUpTo(loc[r].l1, loc[r].npairs))
  /\ [][\A r \in Req :
          (HoldsSlice(r) /\ pc'[r] \notin {"idle", "nz_loop"} /\ loc'[r].l1 # loc[r].l1) =>
             \E d \in 1..Len(loc[r].l1) :
                loc'[r].l1 = SubSeq(loc[r].l1, d + 1, Len(loc[r].l1))]_vars

\* C37, its case: the fill left older pairs of the history out, a compaction
\* step took the oldest pairs of the slice, and pairs remain in it.
C37_SuffixAfterCompaction ==
  \E r \in Req :
    /\ pc[r] = "pf_loop"
    /\ loc[r].steps # <<>>
    /\ loc[r].steps[Len(loc[r].steps)] = "l1_to_l2_group"
    /\ loc[r].l1 # <<>>
    /\ loc[r].npairs > L1_MIN_PAIRS

(***************************************************************************)
(* C38                                                                     *)
(***************************************************************************)
\* The triple of a task: the pairs of its L1 slice, the L2 rows and the L3
\* rows of the thread.
Triple(l1, l2, l3) == <<Len(l1) \div 2, Len(l2), Len(l3)>>

\* a comes strictly before b in lexicographic order.
LexLess(a, b) ==
  \/ a[1] < b[1]
  \/ a[1] = b[1] /\ a[2] < b[2]
  \/ a[1] = b[1] /\ a[2] = b[2] /\ a[3] < b[3]

\* The task r completes a compaction step in this step: a tag is added to
\* the steps of its preflight compactor or of its normalizer.  For an
\* L2 -> L3 step this is the deletion of the block, the L3 row being
\* inserted already.
StepPerformed(r) ==
  \/ Len(loc'[r].steps) = Len(loc[r].steps) + 1
  \/ Len(loc'[r].nsteps) = Len(loc[r].nsteps) + 1

\* C38: every compaction step a task performs strictly decreases, in
\* lexicographic order, the triple (pairs in its L1 slice, L2 rows of the
\* thread, L3 rows of the thread).
C38_StepsDecreaseTriple ==
  [][\A r \in Req :
       StepPerformed(r) =>
         LexLess(Triple(loc'[r].l1, l2rows', l3rows'),
                 Triple(loc[r].l1, l2rows, l3rows))]_vars

\* C38, the failing state: a task has inserted the L3 row of a block and is
\* about to delete the block, of which no row is left in l2_summaries.
C38_BlockAlreadyDeleted ==
  \E r \in Req :
    /\ pc[r] \in {"pf_l3_del", "nz_l3_del"}
    /\ loc[r].blk # <<>>
    /\ \A i \in 1..Len(l2rows) : l2rows[i].id \notin RowIds(loc[r].blk)


(***************************************************************************)
(* C39                                                                     *)
(***************************************************************************)
\* A step in which count_tokens_chat was called and returned.
CallReturned == tok'.pos > 1 /\ tok'.pos # tok.pos

\* The entries _cache held for the list counted, before the call.
StoredFor(lens) == {x \in tok.cache : x.k = lens}

\* C39: a call answered from the cache returns the count and the mode of the
\* entry stored for its list of messages, and that entry is less than 60 s
\* old; a call that falls back stores its result with mode "approx", as a
\* call that succeeds stores its own with "proxy-http"; the cache holds one
\* entry a list.
C39_HitReturnsStoredPair ==
  /\ [][CallReturned /\ tok'.last.out = "hit" =>
          /\ StoredFor(tok'.last.lens) # {}
          /\ \A x \in StoredFor(tok'.last.lens) :
               /\ tok'.last.n = x.n
               /\ tok'.last.mode = x.mode
               /\ tok.now - x.t < 60
          /\ tok'.cache = tok.cache]_vars
  /\ [][CallReturned /\ tok'.last.out # "hit" =>
          [k |-> tok'.last.lens, n |-> tok'.last.n, t |-> tok.now,
           mode |-> tok'.last.mode] \in tok'.cache]_vars
  /\ [](\A x, y \in tok.cache : x.k = y.k => x = y)

\* C39, its case: a list whose count fell back to the approximation at an
\* earlier reading of the clock is counted again and answered from the
\* cache, with the approximation and mode "approx", while an older entry of
\* another list is 60 s old.
C39_ApproxServedFromCache ==
  /\ tok.last.out = "hit"
  /\ tok.last.mode = "approx"
  /\ tok.last.n = approx_tokens_messages(tok.last.lens)
  /\ \E x \in tok.cache : x.k = tok.last.lens /\ x.mode = "approx" /\ x.t < tok.now
  /\ \E y \in tok.cache : tok.now - y.t >= 60

=============================================================================
